---- MODULE Spec2Model ----
(***************************************************************************)
(* The recommendation engine of the SalesMart server                       *)
(* (src/server/routes/users.js, second half: the /api/recommendations      *)
(* router): getUserPreferences, getCollaborativeRecommendations,           *)
(* getContentBasedRecommendations, combineRecommendations and the          *)
(* GET /personalized handler that chains them.                             *)
(*                                                                         *)
(* Numbers.  JavaScript numbers are modelled as exact rationals            *)
(* [kind |-> "number", num, den] with den > 0; the values undefined, NaN   *)
(* and -Infinity are kept apart from the numbers by their kind.  Prices    *)
(* are integers (a currency's minor unit); the weights 0.5 and 0.3 of the  *)
(* extractor are the rationals 5/10 and 3/10.  Binary floating point       *)
(* rounding is not modelled.                                               *)
(***************************************************************************)
EXTENDS Integers, Sequences, FiniteSets

VARIABLES
    products,           \* the Product collection: id -> document
    orders,             \* the Order collection, in insertion order
    wishlist,           \* the requester's user.wishlist (product ids)
    cart,               \* the requester's user.cart (product id, quantity)
    query,              \* req.query.limit, as its characters
    errorLog,           \* the messages console.error has written
    pc,                 \* the position of the request being served
    limit,              \* the handler's `limit`
    userPreferences,    \* the value of getUserPreferences
    collaborativeRecs,  \* the value of getCollaborativeRecommendations
    contentRecs,        \* the value of getContentBasedRecommendations
    recommendations,    \* the value of combineRecommendations
    response,           \* what res.json / res.status(..).json sent
    month,              \* new Date().getMonth() + 1 at the server
    req,                \* the request being served, as far as the handlers read it
    refunds,            \* the refunds created at the payment provider
    served,             \* the number of orders / payments requests served
    intents,            \* the payment intents at the payment provider
    addresses           \* the requester's user.addresses

vars == <<products, orders, wishlist, cart, query, errorLog, pc, limit,
          userPreferences, collaborativeRecs, contentRecs, recommendations,
          response, month, req, refunds, served, intents, addresses>>

-----------------------------------------------------------------------------
(* Bounds of the model.                                                    *)

\* longest input list handed to combineRecommendations on its own
MaxListLen == 2

\* number of product ids
NumProducts == 3

\* most orders in the Order collection
MaxOrders == 3

\* most preference signals (orders, wishlist and cart entries together)
\* of the requester when the extractor is run on its own
MaxSignals == 3

ProductIds == 1..NumProducts

Users == {"u1", "u2", "u3"}

\* the authenticated user of the request (req.user.id)
Requester == "u1"

SeqsUpTo(S, n) == UNION { [1..k -> S] : k \in 0..n }

-----------------------------------------------------------------------------
(* JavaScript values.                                                      *)

Num(n) == [kind |-> "number", num |-> n, den |-> 1]

RECURSIVE Gcd(_, _)
Gcd(a, b) == IF b = 0 THEN a ELSE Gcd(b, a % b)

\* the number n / d, in lowest terms
Rat(n, d) ==
    LET g == Gcd(IF n < 0 THEN -n ELSE n, d) IN
    IF g = 0 THEN [kind |-> "number", num |-> n, den |-> d]
    ELSE [kind |-> "number", num |-> n \div g, den |-> d \div g]

Undefined == [kind |-> "undefined", num |-> 0, den |-> 1]

NaN == [kind |-> "NaN", num |-> 0, den |-> 1]

NegInfinity == [kind |-> "-Infinity", num |-> 0, den |-> 1]

IsNumber(v) == v.kind = "number"

Sign(i) == IF i < 0 THEN -1 ELSE IF i > 0 THEN 1 ELSE 0

\* the sign of a - b; NaN when an operand is undefined or NaN, and
\* -Infinity - -Infinity is NaN too
SubSign(a, b) ==
    CASE IsNumber(a) /\ IsNumber(b) -> Num(Sign(a.num * b.den - b.num * a.den))
      [] IsNumber(a) /\ b.kind = "-Infinity" -> Num(1)
      [] a.kind = "-Infinity" /\ IsNumber(b) -> Num(-1)
      [] OTHER -> NaN

\* a >= b as JavaScript evaluates it: false when either side is not a number
JsGeq(a, b) ==
    LET d == SubSign(a, b) IN IsNumber(d) /\ d.num >= 0

\* a === b on these values (NaN is not equal to itself)
JsEq(a, b) ==
    LET d == SubSign(a, b) IN
    IF IsNumber(a) /\ IsNumber(b) THEN d.num = 0
    ELSE a.kind = b.kind /\ a.kind # "NaN"

-----------------------------------------------------------------------------
(* Array.prototype.sort with a comparator (a, b) => key(b) - key(a), as    *)
(* the engine that runs the server performs it on arrays shorter than 64   *)
(* elements: find the initial run, reverse it when it is strictly          *)
(* descending, then binary insertion of the remaining elements.  The       *)
(* comparator's NaN counts as 0.  `a` is a sequence of positions into      *)
(* `keys`.                                                                 *)

\* comparefn(x, y) = keys[y] - keys[x], as a sign
SortOrder(keys, x, y) ==
    LET d == SubSign(keys[y], keys[x]) IN
    IF IsNumber(d) THEN d.num ELSE 0

RECURSIVE RunEnd(_, _, _, _)
RunEnd(keys, a, isDescending, idx) ==
    IF idx > Len(a) THEN Len(a)
    ELSE LET order == SortOrder(keys, a[idx], a[idx - 1]) IN
         IF isDescending
         THEN IF order >= 0 THEN idx - 1
              ELSE RunEnd(keys, a, isDescending, idx + 1)
         ELSE IF order < 0 THEN idx - 1
              ELSE RunEnd(keys, a, isDescending, idx + 1)

Reverse(s) == [i \in 1..Len(s) |-> s[Len(s) + 1 - i]]

\* <<run length, the array with the run made ascending>>
CountAndMakeRun(keys, a) ==
    IF Len(a) < 2 THEN <<Len(a), a>>
    ELSE LET isDescending == SortOrder(keys, a[2], a[1]) < 0
             runLength == RunEnd(keys, a, isDescending, 3)
         IN  IF isDescending
             THEN <<runLength,
                    Reverse(SubSeq(a, 1, runLength))
                        \o SubSeq(a, runLength + 1, Len(a))>>
             ELSE <<runLength, a>>

RECURSIVE BinarySearch(_, _, _, _, _)
BinarySearch(keys, a, pivot, left, right) ==
    IF left >= right THEN left
    ELSE LET mid == left + ((right - left) \div 2) IN
         IF SortOrder(keys, pivot, a[mid]) < 0
         THEN BinarySearch(keys, a, pivot, left, mid)
         ELSE BinarySearch(keys, a, pivot, mid + 1, right)

RECURSIVE BinaryInsertionSort(_, _, _)
BinaryInsertionSort(keys, a, start) ==
    IF start > Len(a) THEN a
    ELSE LET pivot == a[start]
             left == BinarySearch(keys, a, pivot, 1, start)
             moved == SubSeq(a, 1, left - 1) \o <<pivot>>
                          \o SubSeq(a, left, start - 1)
                          \o SubSeq(a, start + 1, Len(a))
         IN  BinaryInsertionSort(keys, moved, start + 1)

\* the positions 1..Len(keys) in the order the sort leaves them
SortPositions(keys) ==
    LET run == CountAndMakeRun(keys, [i \in 1..Len(keys) |-> i])
    IN  BinaryInsertionSort(keys, run[2], run[1] + 1)

\* items.sort((a, b) => key(b) - key(a)), keys[i] being key(items[i])
SortByKeyDesc(items, keys) ==
    LET p == SortPositions(keys) IN [i \in 1..Len(items) |-> items[p[i]]]

\* Array.prototype.slice(0, end)
Slice0(s, end) ==
    LET n == Len(s)
        k == IF end < 0 THEN (IF n + end < 0 THEN 0 ELSE n + end)
             ELSE (IF end > n THEN n ELSE end)
    IN  SubSeq(s, 1, k)

-----------------------------------------------------------------------------
(* parseInt(req.query.limit) || 10                                         *)

Digits == <<"0", "1", "2", "3", "4", "5", "6", "7", "8", "9">>

IsDigit(c) == \E i \in 1..10 : Digits[i] = c

DigitValue(c) == (CHOOSE i \in 1..10 : Digits[i] = c) - 1

RECURSIVE ParseDigits(_, _, _)
ParseDigits(s, i, acc) ==
    IF i > Len(s) \/ ~IsDigit(s[i]) THEN acc
    ELSE ParseDigits(s, i + 1, acc * 10 + DigitValue(s[i]))

RECURSIVE SkipSpace(_, _)
SkipSpace(s, i) ==
    IF i <= Len(s) /\ s[i] = " " THEN SkipSpace(s, i + 1) ELSE i

\* parseInt of a query value given as its characters; the absent parameter
\* (undefined) is the characters of "undefined" and parses to NaN like
\* every text without a leading number
ParseInt(s) ==
    LET i == SkipSpace(s, 1)
        signed == i <= Len(s) /\ s[i] \in {"-", "+"}
        j == IF signed THEN i + 1 ELSE i
    IN  IF j > Len(s) \/ ~IsDigit(s[j]) THEN NaN
        ELSE IF signed /\ s[i] = "-" THEN Num(0 - ParseDigits(s, j, 0))
        ELSE Num(ParseDigits(s, j, 0))

DefaultLimit == 10

\* parseInt(req.query.limit) || 10: NaN and 0 are falsy
ParseLimit(s) ==
    LET v == ParseInt(s) IN
    IF IsNumber(v) /\ v.num # 0 THEN v.num ELSE DefaultLimit

\* the query strings the model sends
QueryStrings ==
    { <<"u", "n", "d", "e", "f", "i", "n", "e", "d">>,
      <<"0">>, <<"1">>, <<"2">>, <<"3">>, <<"-", "1">>, <<"-", "2">>,
      <<" ", "2", "x">>, <<"1", ".", "5">>, <<"a", "b", "c">>, <<>> }

HandlerLimits == { ParseLimit(q) : q \in QueryStrings }

-----------------------------------------------------------------------------
(* combineRecommendations                                                  *)

\* a reduce that keeps every element
DedupeKeepsAll(combined, acc) == acc \o combined

\* combined.reduce(...): keep the first occurrence of every _id
RECURSIVE Dedupe(_, _)
Dedupe(combined, acc) ==
    IF combined = <<>> THEN acc
    ELSE LET product == Head(combined) IN
         IF \E i \in 1..Len(acc) : acc[i]._id = product._id
         THEN Dedupe(Tail(combined), acc)
         ELSE Dedupe(Tail(combined), Append(acc, product))

ScoresOf(items) == [i \in 1..Len(items) |-> items[i].recommendationScore]

\* the concatenation taken the other way round
combineContentFirst(collaborative, contentBased, lim) ==
    LET combined == contentBased \o collaborative
        uniqueProducts == Dedupe(combined, <<>>)
    IN  Slice0(SortByKeyDesc(uniqueProducts, ScoresOf(uniqueProducts)), lim)

combineRecommendations(collaborative, contentBased, lim) ==
    LET combined == collaborative \o contentBased
        uniqueProducts == Dedupe(combined, <<>>)
    IN  Slice0(SortByKeyDesc(uniqueProducts, ScoresOf(uniqueProducts)), lim)

-----------------------------------------------------------------------------
(* Result items.  A result item is the product's document plus the two     *)
(* annotations; the model keeps the document's _id and looks the other     *)
(* fields up in `products`.  A Mongoose document returned as it was found  *)
(* has neither annotation: both read as undefined.                         *)

Item(id, score, type) ==
    [_id |-> id, recommendationScore |-> score, recommendationType |-> type]

NoPreferences ==
    [categories |-> <<>>, brands |-> <<>>,
     priceRange |-> [avg |-> Num(0), max |-> Undefined],
     totalPurchases |-> 0]

NoResponse == [status |-> 0, recommendations |-> <<>>]

\* no orders / payments request served yet
NoRequest == [handler |-> "none"]

\* a request to GET /personalized, and whether User.findById(req.user.id)
\* finds the requester's document
PersonalizedRequest(found) == [handler |-> "personalized", userFound |-> found]

-----------------------------------------------------------------------------
(* The data store.  A product document is                                  *)
(*   [category, brand, price, averageRating, sales, status];               *)
(* status "deleted" stands for an id whose document is no longer in the    *)
(* collection (orders, wishlists and carts may still refer to it).  An     *)
(* order is [user, isPaid, orderItems], a line item [product, price,       *)
(* quantity].                                                              *)

Exists(id) == products[id].status # "deleted"

IsActive(id) == products[id].status = "active"

\* Order.find({ user: userId, isPaid: true })
PaidOrdersOf(userId) ==
    SelectSeq(orders, LAMBDA o : o.user = userId /\ o.isPaid)

\* userOrders.flatMap(order => order.orderItems)
RECURSIVE FlatItems(_)
FlatItems(os) ==
    IF os = <<>> THEN <<>> ELSE Head(os).orderItems \o FlatItems(Tail(os))

-----------------------------------------------------------------------------
(* getUserPreferences.  `categories` and `brands` are JavaScript objects   *)
(* used as maps: here a sequence of [key, weight] in the order the keys    *)
(* were first assigned, the weight in tenths.                              *)

\* map[key] = (map[key] || 0) + w
AddWeight(map, key, w) ==
    IF \E i \in 1..Len(map) : map[i].key = key
    THEN [i \in 1..Len(map) |->
            IF map[i].key = key
            THEN [key |-> key, weight |-> map[i].weight + w]
            ELSE map[i]]
    ELSE Append(map, [key |-> key, weight |-> w])

\* the signals in the order the function reads them: every line item of
\* the paid orders whose populated product is not null (its quantity),
\* every wishlist product (0.5), every cart item whose populated product
\* is not null (0.3).  populate() drops the missing documents of an array
\* of references (the wishlist) and leaves null in a single reference.
PurchaseSignals(items) ==
    [i \in 1..Len(items) |->
        [product |-> items[i].product, weight |-> 10 * items[i].quantity]]

WishlistSignals(wl) ==
    [i \in 1..Len(wl) |-> [product |-> wl[i], weight |-> 5]]

CartSignals(ct) ==
    [i \in 1..Len(ct) |-> [product |-> ct[i].product, weight |-> 3]]

\* the loops without their `if (item.product)`
SignalsUnguarded(userOrders, wl, ct) ==
    PurchaseSignals(FlatItems(userOrders))
        \o WishlistSignals(wl) \o CartSignals(ct)

Signals(userOrders, wl, ct) ==
    SelectSeq(PurchaseSignals(FlatItems(userOrders))
                  \o WishlistSignals(wl) \o CartSignals(ct),
              LAMBDA g : Exists(g.product))

RECURSIVE CategoryWeights(_, _)
CategoryWeights(signals, map) ==
    IF signals = <<>> THEN map
    ELSE CategoryWeights(Tail(signals),
            AddWeight(map, products[Head(signals).product].category,
                      Head(signals).weight))

RECURSIVE BrandWeights(_, _)
BrandWeights(signals, map) ==
    IF signals = <<>> THEN map
    ELSE BrandWeights(Tail(signals),
            AddWeight(map, products[Head(signals).product].brand,
                      Head(signals).weight))

\* the value of a key that is the canonical form of an array index (of
\* the brand names products carry here), -1 for any other key
IndexKeyValue(key) ==
    CASE key = "7" -> 7
      [] key = "4711" -> 4711
      [] OTHER -> -1

\* the entries of map whose key is an array index, by ascending index
RECURSIVE IndexEntries(_)
IndexEntries(map) ==
    LET at == { i \in 1..Len(map) : IndexKeyValue(map[i].key) >= 0 } IN
    IF at = {} THEN <<>>
    ELSE LET m == CHOOSE i \in at : \A j \in at :
                      IndexKeyValue(map[i].key) <= IndexKeyValue(map[j].key)
         IN  <<map[m]>> \o IndexEntries(SelectSeq(map, LAMBDA e : e # map[m]))

\* Object.keys(map) as the own property keys of a plain object come:
\* array-index keys in ascending numeric order, then the other string
\* keys in the order they were created
ObjectKeys(map) ==
    IndexEntries(map)
        \o SelectSeq(map, LAMBDA e : IndexKeyValue(e.key) < 0)

\* Object.keys(map).sort((a, b) => map[b] - map[a])
RankedKeys(map) ==
    LET own == ObjectKeys(map) IN
    SortByKeyDesc([i \in 1..Len(own) |-> own[i].key],
                  [i \in 1..Len(own) |-> Rat(own[i].weight, 10)])

\* the line items the purchase loop counts: populated product not null
CountedItems(userOrders) ==
    SelectSeq(FlatItems(userOrders), LAMBDA it : Exists(it.product))

RECURSIVE TotalSpent(_)
TotalSpent(items) ==
    IF items = <<>> THEN 0
    ELSE Head(items).price * Head(items).quantity + TotalSpent(Tail(items))

RECURSIVE ItemCount(_)
ItemCount(items) ==
    IF items = <<>> THEN 0
    ELSE Head(items).quantity + ItemCount(Tail(items))

\* Math.max(...values): -Infinity for no argument
MathMax(values) ==
    IF values = <<>> THEN NegInfinity
    ELSE Num(CHOOSE m \in { values[i] : i \in 1..Len(values) } :
                \A i \in 1..Len(values) : values[i] <= m)

\* the division without its guard
AvgPriceUnguarded(totalSpent, itemCount) == Rat(totalSpent, itemCount)

\* itemCount > 0 ? totalSpent / itemCount : 0
AvgPrice(totalSpent, itemCount) ==
    IF itemCount > 0 THEN Rat(totalSpent, itemCount) ELSE Num(0)

\* Math.max(...userOrders.flatMap(o => o.orderItems.map(i => i.price)))
MaxPrice(userOrders) ==
    LET items == FlatItems(userOrders) IN
    MathMax([i \in 1..Len(items) |-> items[i].price])

getUserPreferences(userOrders, wl, ct) ==
    LET signals == Signals(userOrders, wl, ct)
        counted == CountedItems(userOrders)
    IN  [categories |-> RankedKeys(CategoryWeights(signals, <<>>)),
         brands |-> RankedKeys(BrandWeights(signals, <<>>)),
         priceRange |->
            [avg |-> AvgPrice(TotalSpent(counted), ItemCount(counted)),
             max |-> MaxPrice(userOrders)],
         totalPurchases |-> ItemCount(counted)]

-----------------------------------------------------------------------------
(* getCollaborativeRecommendations.  The two aggregations are computed     *)
(* over `orders` as the pipeline stages define them.  What MongoDB leaves  *)
(* open (which of several equal-count groups a $sort + $limit keeps) is a  *)
(* choice; Product.find({_id: {$in: ids}}) answers in _id order.           *)

\* ascending sequence of a set of integers
RECURSIVE Ascending(_)
Ascending(S) ==
    IF S = {} THEN <<>>
    ELSE LET m == CHOOSE x \in S : \A y \in S : x <= y
         IN  <<m>> \o Ascending(S \ {m})

\* userOrders.flatMap(order => order.orderItems.map(item => item.product))
UserProductIds(userId) ==
    LET items == FlatItems(PaidOrdersOf(userId))
    IN  { items[i].product : i \in 1..Len(items) }

\* 'orderItems.product': { $in: ids } -- some line item names one of ids
HasAnyOf(o, ids) ==
    \E i \in 1..Len(o.orderItems) : o.orderItems[i].product \in ids

\* $match { isPaid: true, 'orderItems.product': { $in: userProductIds } }
\* then $group by user with count: { $sum: 1 }
RECURSIVE CommonOrderCount(_, _, _)
CommonOrderCount(os, u, ids) ==
    IF os = <<>> THEN 0
    ELSE (IF Head(os).user = u /\ Head(os).isPaid /\ HasAnyOf(Head(os), ids)
          THEN 1 ELSE 0) + CommonOrderCount(Tail(os), u, ids)

NeighborLimit == 20

\* the subsets of S with k elements
RECURSIVE KSubsets(_, _)
KSubsets(S, k) ==
    IF k = 0 THEN { {} }
    ELSE IF Cardinality(S) < k THEN {}
    ELSE LET x == CHOOSE y \in S : TRUE
         IN  { T \cup {x} : T \in KSubsets(S \ {x}, k - 1) }
                 \cup KSubsets(S \ {x}, k)

\* the users that have an order in the store
OrderUsers == { orders[n].user : n \in 1..Len(orders) }

\* $group { _id: '$user', count: { $sum: 1 } },
\* $match { _id: { $ne: userId } }, $sort { count: -1 },
\* $limit 20: the sets of users the first aggregation can answer with.
\* Every group above the count of the last place is in, the groups that
\* tie for it fill what is left in any way.
SimilarUserSets(userId, ids) ==
    LET groups == { u \in OrderUsers \ {userId} :
                        CommonOrderCount(orders, u, ids) > 0 }
        k == IF Cardinality(groups) < NeighborLimit
             THEN Cardinality(groups) ELSE NeighborLimit
        counts == { CommonOrderCount(orders, u, ids) : u \in groups }
        above(c) == { u \in groups : CommonOrderCount(orders, u, ids) > c }
        at(c) == { u \in groups : CommonOrderCount(orders, u, ids) = c }
    IN  IF k = 0 THEN { {} }
        ELSE LET last == CHOOSE c \in counts :
                            /\ Cardinality(above(c)) < k
                            /\ Cardinality(above(c) \cup at(c)) >= k
             IN  { above(last) \cup T :
                     T \in KSubsets(at(last), k - Cardinality(above(last))) }

\* a $match without the $nin condition
ExcludesNothing(o, ids) == TRUE

\* 'orderItems.product': { $nin: ids } -- no line item names one of ids
ExcludesPurchased(o, ids) == ~HasAnyOf(o, ids)

\* $match { user: { $in: similarUserIds }, isPaid: true, $nin }
NeighborOrders(similarUserIds, ids) ==
    SelectSeq(orders, LAMBDA o : /\ o.user \in similarUserIds
                                 /\ o.isPaid
                                 /\ ExcludesPurchased(o, ids))

\* a group that counts a product once however often it was bought
GroupScoreOnce(items, p) ==
    IF \E i \in 1..Len(items) : items[i].product = p THEN 1 ELSE 0

\* $unwind: '$orderItems', $group { _id: product, score: { $sum: 1 } }
RECURSIVE GroupScore(_, _)
GroupScore(items, p) ==
    IF items = <<>> THEN 0
    ELSE (IF Head(items).product = p THEN 1 ELSE 0)
            + GroupScore(Tail(items), p)

\* $sort { score: -1 }, $limit limit: the sets of groups that can be kept
TopGroups(items, lim) ==
    LET groups == { p \in ProductIds : GroupScore(items, p) > 0 }
        k == IF Cardinality(groups) < lim THEN Cardinality(groups) ELSE lim
    IN  { G \in SUBSET groups :
            /\ Cardinality(G) = k
            /\ \A x \in G, y \in groups \ G :
                  GroupScore(items, x) >= GroupScore(items, y) }

\* Product.find({ _id: { $in: productIds }, status: 'active' }) mapped to
\* result items
CollaborativeItems(items, G) ==
    LET found == Ascending({ p \in G : IsActive(p) })
    IN  [i \in 1..Len(found) |->
            Item(found[i], Num(GroupScore(items, found[i])), "collaborative")]

Returned(v) == [threw |-> FALSE, value |-> v, logged |-> FALSE]

Thrown == [threw |-> TRUE, value |-> <<>>, logged |-> FALSE]

Caught == [threw |-> FALSE, value |-> <<>>, logged |-> TRUE]

\* the try block (users.js:762-840).  It throws when a read of the store
\* fails, when the driver refuses mongoose.Types.ObjectId(id) called
\* without `new`, and when $limit is not positive.
CollaborativeBody(userId, lim) ==
    LET ids == UserProductIds(userId) IN
    IF ids = {} THEN { Returned(<<>>), Thrown }
    ELSE IF lim <= 0 THEN { Thrown }
    ELSE { Thrown } \cup
         UNION { LET items == FlatItems(NeighborOrders(N, ids)) IN
                 { Returned(CollaborativeItems(items, G)) :
                     G \in TopGroups(items, lim) } :
                 N \in SimilarUserSets(userId, ids) }

\* a catch that throws the error on
CollaborativeRethrows(outcome) == outcome

\* catch (error) { console.error(...); return []; }
CollaborativeCatch(outcome) ==
    IF outcome.threw THEN Caught ELSE outcome

getCollaborativeRecommendations(userId, lim) ==
    { CollaborativeCatch(o) : o \in CollaborativeBody(userId, lim) }

-----------------------------------------------------------------------------
(* getContentBasedRecommendations                                          *)

TopK == 3

\* Array.prototype.indexOf
IndexOf(s, x) ==
    IF \E i \in 1..Len(s) : s[i] = x
    THEN (CHOOSE i \in 1..Len(s) :
            s[i] = x /\ \A j \in 1..(i - 1) : s[j] # x) - 1
    ELSE -1

Abs(i) == IF i < 0 THEN 0 - i ELSE i

\* a sort on sales alone
SalesBefore(a, b) == products[a].sales >= products[b].sales

\* .sort({ averageRating: -1, sales: -1 })
RatedBefore(a, b) ==
    \/ products[a].averageRating > products[b].averageRating
    \/ /\ products[a].averageRating = products[b].averageRating
       /\ products[a].sales >= products[b].sales

\* cursor.limit(n): a negative n asks for |n| documents in one batch
CursorLimit(s, n) == SubSeq(s, 1, IF Abs(n) < Len(s) THEN Abs(n) ELSE Len(s))

\* Product.find({ status: 'active' }).sort(...).limit(limit): every order
\* of the active products the sort keys allow, cut to the limit
PopularProducts(lim) ==
    LET active == { p \in ProductIds : IsActive(p) }
        n == Cardinality(active)
    IN  { CursorLimit([i \in 1..n |-> Item(s[i], Undefined, "undefined")],
                      lim) :
            s \in { t \in [1..n -> active] :
                      /\ \A i, j \in 1..n : i # j => t[i] # t[j]
                      /\ \A i \in 1..(n - 1) : RatedBefore(t[i], t[i + 1]) } }

\* the category bonus with the weight of the brand bonus
ContentScoreCategoryAsBrand(product, categoryWeights, brandWeights, avg) ==
    LET categoryIndex == IndexOf(categoryWeights, product.category)
        brandIndex == IndexOf(brandWeights, product.brand)
        categoryBonus == IF categoryIndex # -1
                         THEN (3 - categoryIndex) * 2 ELSE 0
        brandBonus == IF brandIndex # -1 THEN (3 - brandIndex) * 2 ELSE 0
        hasAvg == IsNumber(avg) /\ avg.num > 0
        d == IF hasAvg THEN avg.num ELSE 1
        room == IF hasAvg
                THEN 2 * avg.num - Abs(product.price * avg.den - avg.num)
                ELSE 0
        priceBonus == IF room > 0 THEN room ELSE 0
        salesBonus == IF product.sales < 200 THEN product.sales ELSE 200
    IN  Rat((categoryBonus + brandBonus + product.averageRating) * 100 * d
                + 100 * priceBonus + salesBonus * d,
            100 * d)

\* the score of one candidate (users.js:873-897) as an exact fraction over
\* 100 * avg.num: the price term is max(0, 2 - |price - avg| / avg), the
\* sales term min(sales / 100, 2)
ContentScore(product, categoryWeights, brandWeights, avg) ==
    LET categoryIndex == IndexOf(categoryWeights, product.category)
        brandIndex == IndexOf(brandWeights, product.brand)
        categoryBonus == IF categoryIndex # -1
                         THEN (3 - categoryIndex) * 3 ELSE 0
        brandBonus == IF brandIndex # -1 THEN (3 - brandIndex) * 2 ELSE 0
        hasAvg == IsNumber(avg) /\ avg.num > 0
        d == IF hasAvg THEN avg.num ELSE 1
        room == IF hasAvg
                THEN 2 * avg.num - Abs(product.price * avg.den - avg.num)
                ELSE 0
        priceBonus == IF room > 0 THEN room ELSE 0
        salesBonus == IF product.sales < 200 THEN product.sales ELSE 200
    IN  Rat((categoryBonus + brandBonus + product.averageRating) * 100 * d
                + 100 * priceBonus + salesBonus * d,
            100 * d)

\* Product.find({ status: 'active', $or: [category $in, brand $in] })
Candidates(categoryWeights, brandWeights) ==
    Ascending({ p \in ProductIds :
        /\ IsActive(p)
        /\ \/ \E i \in 1..Len(categoryWeights) :
                 categoryWeights[i] = products[p].category
           \/ \E i \in 1..Len(brandWeights) :
                 brandWeights[i] = products[p].brand })

ScoredProducts(prefs, lim) ==
    LET categoryWeights == Slice0(prefs.categories, TopK)
        brandWeights == Slice0(prefs.brands, TopK)
        found == Candidates(categoryWeights, brandWeights)
        scored == [i \in 1..Len(found) |->
                     Item(found[i],
                          ContentScore(products[found[i]], categoryWeights,
                                       brandWeights, prefs.priceRange.avg),
                          "content-based")]
    IN  Slice0(SortByKeyDesc(scored, ScoresOf(scored)), lim)

\* the try block (users.js:849-907); it throws when the read fails
ContentBody(prefs, lim) ==
    { Thrown } \cup
    IF Len(prefs.categories) = 0
    THEN { Returned(v) : v \in PopularProducts(lim) }
    ELSE { Returned(ScoredProducts(prefs, lim)) }

\* catch (error) { console.error(...); return []; }
ContentCatch(outcome) ==
    IF outcome.threw THEN Caught ELSE outcome

getContentBasedRecommendations(prefs, lim) ==
    { ContentCatch(o) : o \in ContentBody(prefs, lim) }

-----------------------------------------------------------------------------
(* The steps of GET /api/recommendations/personalized (users.js:528-575).  *)
(* The store is only read, so each await is a step of its own.             *)

\* users.js:529-540: parse the limit, read the paid orders and the user;
\* a failed read is thrown into the handler's catch
ReadHistory ==
    /\ pc = "start"
    /\ limit' = ParseLimit(query)
    /\ \E readOk \in BOOLEAN : pc' = IF readOk THEN "prefs" ELSE "error"
    /\ UNCHANGED <<month, req, refunds, served, intents, addresses>>
    /\ UNCHANGED <<products, orders, wishlist, cart, query, errorLog,
                   userPreferences, collaborativeRecs, contentRecs,
                   recommendations, response>>

\* User.findById(userId) has answered null: the requester's document is
\* gone
UserMissing == req.handler = "personalized" /\ ~req.userFound

\* users.js:543; with a null user the read of user.wishlist (users.js:733)
\* throws into the handler's catch
ExtractPreferences ==
    /\ pc = "prefs"
    /\ IF UserMissing
       THEN /\ pc' = "error"
            /\ UNCHANGED userPreferences
       ELSE /\ userPreferences' =
                  getUserPreferences(PaidOrdersOf(Requester), wishlist, cart)
            /\ pc' = "collab"
    /\ UNCHANGED <<month, req, refunds, served, intents, addresses>>
    /\ UNCHANGED <<products, orders, wishlist, cart, query, errorLog, limit,
                   collaborativeRecs, contentRecs, recommendations, response>>

\* users.js:546
Collaborative ==
    /\ pc = "collab"
    /\ \E o \in getCollaborativeRecommendations(Requester, limit) :
          /\ collaborativeRecs' = o.value
          /\ pc' = IF o.threw THEN "error" ELSE "content"
          /\ errorLog' = IF o.logged
                         THEN errorLog \cup {"Collaborative filtering error:"}
                         ELSE errorLog
    /\ UNCHANGED <<month, req, refunds, served, intents, addresses>>
    /\ UNCHANGED <<products, orders, wishlist, cart, query, limit,
                   userPreferences, contentRecs, recommendations, response>>

\* users.js:549
Content ==
    /\ pc = "content"
    /\ \E o \in getContentBasedRecommendations(userPreferences, limit) :
          /\ contentRecs' = o.value
          /\ pc' = IF o.threw THEN "error" ELSE "combine"
          /\ errorLog' = IF o.logged
                         THEN errorLog \cup {"Content-based filtering error:"}
                         ELSE errorLog
    /\ UNCHANGED <<month, req, refunds, served, intents, addresses>>
    /\ UNCHANGED <<products, orders, wishlist, cart, query, limit,
                   userPreferences, collaborativeRecs, recommendations,
                   response>>

\* users.js:552-557
Combine ==
    /\ pc = "combine"
    /\ recommendations' =
           combineRecommendations(collaborativeRecs, contentRecs, limit)
    /\ pc' = "respond"
    /\ UNCHANGED <<month, req, refunds, served, intents, addresses>>
    /\ UNCHANGED <<products, orders, wishlist, cart, query, errorLog, limit,
                   userPreferences, collaborativeRecs, contentRecs, response>>

\* users.js:559-567
Respond ==
    /\ pc = "respond"
    /\ response' = [status |-> 200, recommendations |-> recommendations]
    /\ pc' = "done"
    /\ UNCHANGED <<month, req, refunds, served, intents, addresses>>
    /\ UNCHANGED <<products, orders, wishlist, cart, query, errorLog, limit,
                   userPreferences, collaborativeRecs, contentRecs,
                   recommendations>>

\* users.js:568-574
RespondError ==
    /\ pc = "error"
    /\ response' = [status |-> 500, recommendations |-> <<>>]
    /\ pc' = "done"
    /\ UNCHANGED <<month, req, refunds, served, intents, addresses>>
    /\ UNCHANGED <<products, orders, wishlist, cart, query, errorLog, limit,
                   userPreferences, collaborativeRecs, contentRecs,
                   recommendations>>

-----------------------------------------------------------------------------
(* Snapshots.  A product's category, brand and price follow from its id;   *)
(* the specifications below draw the rest.                                 *)

CategoryNames == <<"Electronics", "Books & Media", "Home & Garden">>

BrandNames == <<"Acme", "Zen">>

CategoryOf(id) == CategoryNames[(((id - 1) \div 2) % 3) + 1]

BrandOf(id) == BrandNames[((id - 1) % 2) + 1]

PriceOf(id) == 10 * id

Product(id, rating, sales, status) ==
    [category |-> CategoryOf(id), brand |-> BrandOf(id), price |-> PriceOf(id),
     averageRating |-> rating, sales |-> sales, status |-> status]

\* catalogs that differ in the products' status only
CatalogsByStatus(statuses) ==
    { [id \in ProductIds |-> Product(id, 4, 50, st[id])] :
        st \in [ProductIds -> statuses] }

\* the catalog of active products, and the catalogs with one inactive one
CatalogsOneInactive ==
    { [id \in ProductIds |->
          Product(id, 4, 50, IF id = off THEN "inactive" ELSE "active")] :
        off \in 0..NumProducts }

LineItem(p, price, quantity) ==
    [product |-> p, price |-> price, quantity |-> quantity]

Order(u, paid, items) == [user |-> u, isPaid |-> paid, orderItems |-> items]

AllProducts == [i \in 1..NumProducts |-> LineItem(i, PriceOf(i), 1)]

\* sequences over 1..n that do not decrease: one order of a collection per
\* multiset of documents
RECURSIVE NonDecreasingOfLen(_, _)
NonDecreasingOfLen(n, k) ==
    IF k = 0 THEN { <<>> }
    ELSE UNION { { Append(s, x) :
                     x \in (IF s = <<>> THEN 1 ELSE s[Len(s)])..n } :
                 s \in NonDecreasingOfLen(n, k - 1) }

NonDecreasing(n, maxLen) ==
    UNION { NonDecreasingOfLen(n, k) : k \in 0..maxLen }

\* the collections of at most maxLen orders drawn from the sequence `pool`
Collections(pool, maxLen) ==
    { [i \in 1..Len(s) |-> pool[s[i]]] : s \in NonDecreasing(Len(pool), maxLen) }

RECURSIVE SeqOfSet(_)
SeqOfSet(S) ==
    IF S = {} THEN <<>>
    ELSE LET x == CHOOSE y \in S : TRUE IN <<x>> \o SeqOfSet(S \ {x})

-----------------------------------------------------------------------------
(* combineRecommendations on its own: every pair of input lists up to      *)
(* MaxListLen items and every limit the handler can compute.               *)

CollabItemPool ==
    { Item(i, Num(s), "collaborative") : i \in ProductIds, s \in {1, 2} }

ContentItemPool ==
    { Item(i, Rat(3, 2), "content-based") : i \in ProductIds }
        \cup { Item(i, Undefined, "undefined") : i \in ProductIds }

InitCombine ==
    /\ products \in CatalogsByStatus({"active"})
    /\ orders = <<>>
    /\ wishlist = <<>>
    /\ cart = <<>>
    /\ query = <<>>
    /\ errorLog = {}
    /\ pc = "combine"
    /\ limit \in HandlerLimits
    /\ userPreferences = NoPreferences
    /\ collaborativeRecs \in SeqsUpTo(CollabItemPool, MaxListLen)
    /\ contentRecs \in SeqsUpTo(ContentItemPool, MaxListLen)
    /\ recommendations = <<>>
    /\ response = NoResponse
    /\ month = 1
    /\ req = NoRequest
    /\ refunds = <<>>
    /\ served = 0
    /\ intents = <<>>
    /\ addresses = <<>>

NextCombine == Combine \/ Respond

SpecCombine == InitCombine /\ [][NextCombine]_vars

-----------------------------------------------------------------------------
(* getUserPreferences on its own: the requester's history is at most       *)
(* MaxSignals orders, wishlist products and cart items together.           *)

PrefOrderPool ==
    { Order(Requester, TRUE, <<LineItem(p, pq[1], pq[2])>>) :
        p \in ProductIds, pq \in {<<10, 1>>, <<4, 2>>, <<0, 1>>} }
    \cup { Order(Requester, TRUE, <<>>),
           Order(Requester, FALSE, <<LineItem(1, 50, 3)>>),
           Order("u2", TRUE, <<LineItem(2, 50, 3)>>) }

\* catalogs with a brand whose name is a number
NumericBrandCatalogs ==
    LET c == [id \in ProductIds |-> Product(id, 4, 50, "active")] IN
    { [c EXCEPT ![NumProducts].brand = "7"],
      [c EXCEPT ![1].brand = "4711", ![NumProducts].brand = "7"] }

InitPrefs ==
    /\ products \in CatalogsByStatus({"active", "deleted"})
                        \cup NumericBrandCatalogs
    /\ orders \in SeqsUpTo(PrefOrderPool, MaxSignals)
    /\ wishlist \in SeqsUpTo(ProductIds, MaxSignals - Len(orders))
    /\ cart \in { [i \in 1..Len(c) |-> [product |-> c[i], quantity |-> 1]] :
                    c \in SeqsUpTo(ProductIds,
                                   MaxSignals - Len(orders) - Len(wishlist)) }
    /\ query = <<>>
    /\ errorLog = {}
    /\ pc = "prefs"
    /\ limit = DefaultLimit
    /\ userPreferences = NoPreferences
    /\ collaborativeRecs = <<>>
    /\ contentRecs = <<>>
    /\ recommendations = <<>>
    /\ response = NoResponse
    /\ month = 1
    /\ req = NoRequest
    /\ refunds = <<>>
    /\ served = 0
    /\ intents = <<>>
    /\ addresses = <<>>

NextPrefs == ExtractPreferences

SpecPrefs == InitPrefs /\ [][NextPrefs]_vars

-----------------------------------------------------------------------------
(* getCollaborativeRecommendations on its own: every collection of at most *)
(* MaxOrders orders.  The paid orders of the requester and of u3 hold one   *)
(* line item, those of u2 one or two, or every product but the first with  *)
(* the last one on two lines; an unpaid order names every product.         *)

ItemLists ==
    { <<LineItem(p, PriceOf(p), 1)>> : p \in ProductIds }
    \cup { <<LineItem(p, PriceOf(p), 1), LineItem(q, PriceOf(q), 1)>> :
             <<p, q>> \in { pq \in ProductIds \X ProductIds : pq[1] <= pq[2] } }

RepeatedLines ==
    Tail(AllProducts) \o <<LineItem(NumProducts, PriceOf(NumProducts), 1)>>

CollabOrderPool ==
    SeqOfSet({ Order(u, TRUE, <<LineItem(p, PriceOf(p), 1)>>) :
                 u \in {Requester, "u3"}, p \in ProductIds }
             \cup { Order("u2", TRUE, items) : items \in ItemLists }
             \cup { Order("u2", TRUE, RepeatedLines) }
             \cup { Order(u, FALSE, AllProducts) : u \in {Requester, "u2"} })

InitCollab ==
    /\ products \in CatalogsOneInactive
    /\ orders \in Collections(CollabOrderPool, MaxOrders)
    /\ wishlist = <<>>
    /\ cart = <<>>
    /\ query = <<>>
    /\ errorLog = {}
    /\ pc = "collab"
    /\ limit \in {1, DefaultLimit, -1}
    /\ userPreferences = NoPreferences
    /\ collaborativeRecs = <<>>
    /\ contentRecs = <<>>
    /\ recommendations = <<>>
    /\ response = NoResponse
    /\ month = 1
    /\ req = NoRequest
    /\ refunds = <<>>
    /\ served = 0
    /\ intents = <<>>
    /\ addresses = <<>>

NextCollab == Collaborative

SpecCollab == InitCollab /\ [][NextCollab]_vars

(***************************************************************************)
(* The first aggregation of getCollaborativeRecommendations over a store   *)
(* with more buyers than its $limit of 20: the requester has bought        *)
(* products 1 and 2 in one paid order, "wide" has one order naming both,   *)
(* and each user of the crowd has one or two paid orders naming product 1  *)
(* and another product.                                                    *)
(***************************************************************************)
CrowdSeq ==
    << "n01", "n02", "n03", "n04", "n05", "n06", "n07", "n08", "n09", "n10",
       "n11", "n12", "n13", "n14", "n15", "n16", "n17", "n18", "n19", "n20" >>

Crowd == { CrowdSeq[i] : i \in 1..Len(CrowdSeq) }

Wide == "wide"

\* the orders of the crowd: the first m users have ordered twice
RECURSIVE CrowdOrders(_, _)
CrowdOrders(i, m) ==
    IF i > Len(CrowdSeq) THEN <<>>
    ELSE LET o == Order(CrowdSeq[i], TRUE,
                        <<LineItem(1, PriceOf(1), 1),
                          LineItem(NumProducts, PriceOf(NumProducts), 1)>>)
         IN  (IF i <= m THEN <<o, o>> ELSE <<o>>) \o CrowdOrders(i + 1, m)

InitNeighbors ==
    /\ products \in CatalogsOneInactive
    /\ \E m \in 0..Len(CrowdSeq), widePaid \in BOOLEAN :
          orders = << Order(Requester, TRUE,
                            <<LineItem(1, PriceOf(1), 1),
                              LineItem(2, PriceOf(2), 1)>>),
                      Order(Wide, widePaid,
                            <<LineItem(1, PriceOf(1), 1),
                              LineItem(2, PriceOf(2), 1),
                              LineItem(NumProducts, PriceOf(NumProducts), 1)>>) >>
                   \o CrowdOrders(1, m)
    /\ wishlist = <<>>
    /\ cart = <<>>
    /\ query = <<>>
    /\ errorLog = {}
    /\ pc = "collab"
    /\ limit \in {1, DefaultLimit, -1}
    /\ userPreferences = NoPreferences
    /\ collaborativeRecs = <<>>
    /\ contentRecs = <<>>
    /\ recommendations = <<>>
    /\ response = NoResponse
    /\ month = 1
    /\ req = NoRequest
    /\ refunds = <<>>
    /\ served = 0
    /\ intents = <<>>
    /\ addresses = <<>>

NextNeighbors == Collaborative

SpecNeighbors == InitNeighbors /\ [][NextNeighbors]_vars

-----------------------------------------------------------------------------
(* getContentBasedRecommendations behind the steps that feed it: the       *)
(* extractor runs on a history of at most MaxListLen paid orders of the    *)
(* requester alone, the catalog varies in rating, sales and status.        *)

ContentCatalogs ==
    { [id \in ProductIds |-> Product(id, v[id][1], v[id][2], v[id][3])] :
        v \in [ProductIds -> { <<5, 50, "active">>, <<5, 250, "active">>,
                               <<3, 250, "active">>, <<5, 250, "inactive">> }] }

ContentOrderPool ==
    { Order(Requester, TRUE, <<LineItem(p, 15, 1)>>) : p \in ProductIds }
        \cup { Order(Requester, TRUE, <<LineItem(p, 0, 1)>>) : p \in {1, 3} }

InitContent ==
    /\ products \in ContentCatalogs
    /\ orders \in SeqsUpTo(ContentOrderPool, MaxListLen)
    /\ wishlist = <<>>
    /\ cart = <<>>
    /\ query = <<>>
    /\ errorLog = {}
    /\ pc = "prefs"
    /\ limit \in {1, 2, DefaultLimit, -1}
    /\ userPreferences = NoPreferences
    /\ collaborativeRecs = <<>>
    /\ contentRecs = <<>>
    /\ recommendations = <<>>
    /\ response = NoResponse
    /\ month = 1
    /\ req = NoRequest
    /\ refunds = <<>>
    /\ served = 0
    /\ intents = <<>>
    /\ addresses = <<>>

NextContent ==
    \/ ExtractPreferences
    \/ Collaborative
    \/ Content

SpecContent == InitContent /\ [][NextContent]_vars

-----------------------------------------------------------------------------
(* The whole request over every collection of at most MaxOrders paid       *)
(* one-item orders and every catalog of existing and deleted products.     *)

RequestOrderPool ==
    SeqOfSet({ Order(u, TRUE, <<LineItem(p, PriceOf(p), 1)>>) :
                 u \in Users, p \in ProductIds })

RequestQueries ==
    { <<"u", "n", "d", "e", "f", "i", "n", "e", "d">>, <<"1">>, <<"0">>,
      <<"-", "1">> }

Init ==
    /\ products \in CatalogsByStatus({"active", "deleted"})
    /\ orders \in Collections(RequestOrderPool, MaxOrders)
    /\ wishlist = <<>>
    /\ cart = <<>>
    /\ query \in RequestQueries
    /\ errorLog = {}
    /\ pc = "start"
    /\ limit = DefaultLimit
    /\ userPreferences = NoPreferences
    /\ collaborativeRecs = <<>>
    /\ contentRecs = <<>>
    /\ recommendations = <<>>
    /\ response = NoResponse
    /\ month = 1
    /\ req \in { PersonalizedRequest(found) : found \in BOOLEAN }
    /\ refunds = <<>>
    /\ served = 0
    /\ intents = <<>>
    /\ addresses = <<>>

Next ==
    \/ ReadHistory
    \/ ExtractPreferences
    \/ Collaborative
    \/ Content
    \/ Combine
    \/ Respond
    \/ RespondError

Spec == Init /\ [][Next]_vars

-----------------------------------------------------------------------------
(* GET /api/recommendations/seasonal (users.js:693-711) and                *)
(* getSeasonalRecommendations (users.js:1030-1066).  The products of this  *)
(* catalog carry their `tags`.                                             *)

SeasonalDefaultLimit == 12

\* parseInt(req.query.limit) || 12
ParseSeasonalLimit(s) ==
    LET v == ParseInt(s) IN
    IF IsNumber(v) /\ v.num # 0 THEN v.num ELSE SeasonalDefaultLimit

\* the if / else-if chain of users.js:1034-1042
SeasonalTags(currentMonth) ==
    IF currentMonth >= 3 /\ currentMonth <= 5
    THEN {"spring", "outdoor", "garden", "fashion"}
    ELSE IF currentMonth >= 6 /\ currentMonth <= 8
    THEN {"summer", "outdoor", "sports", "vacation", "swimwear"}
    ELSE IF currentMonth >= 9 /\ currentMonth <= 11
    THEN {"fall", "autumn", "back-to-school", "warm", "cozy"}
    ELSE {"winter", "holiday", "warm", "indoor", "gifts"}

getSeasonalCategories(m) ==
    IF m >= 3 /\ m <= 5
    THEN {"Home & Garden", "Sports & Outdoors", "Clothing & Fashion"}
    ELSE IF m >= 6 /\ m <= 8
    THEN {"Sports & Outdoors", "Clothing & Fashion", "Electronics"}
    ELSE IF m >= 9 /\ m <= 11
    THEN {"Clothing & Fashion", "Electronics", "Books & Media"}
    ELSE {"Electronics", "Toys & Games", "Home & Garden"}

\* { status: 'active', $or: [{ tags: { $in } }, { category: { $in } }] }
SeasonalMatches(currentMonth) ==
    { p \in ProductIds :
        /\ IsActive(p)
        /\ \/ products[p].tags \cap SeasonalTags(currentMonth) # {}
           \/ products[p].category \in getSeasonalCategories(currentMonth) }

\* .sort({ averageRating: -1, sales: -1 }).limit(limit) over the documents
\* found: every order the sort keys allow, cut to the limit
SortedFind(found, lim) ==
    LET n == Cardinality(found)
    IN  { CursorLimit([i \in 1..n |-> Item(s[i], Undefined, "undefined")],
                      lim) :
            s \in { t \in [1..n -> found] :
                      /\ \A i, j \in 1..n : i # j => t[i] # t[j]
                      /\ \A i \in 1..(n - 1) : RatedBefore(t[i], t[i + 1]) } }

\* the function has no try: a failed read is thrown to the handler
getSeasonalRecommendations(currentMonth, lim) ==
    { Thrown } \cup
    { Returned(v) : v \in SortedFind(SeasonalMatches(currentMonth), lim) }

\* the handler: 200 with the list, 500 from its catch
Seasonal ==
    /\ pc = "start"
    /\ limit' = ParseSeasonalLimit(query)
    /\ \E o \in getSeasonalRecommendations(month, ParseSeasonalLimit(query)) :
          response' = IF o.threw
                      THEN [status |-> 500, recommendations |-> <<>>]
                      ELSE [status |-> 200, recommendations |-> o.value]
    /\ pc' = "done"
    /\ UNCHANGED <<products, orders, wishlist, cart, query, errorLog,
                   userPreferences, collaborativeRecs, contentRecs,
                   recommendations, month, req, refunds, served, intents,
                   addresses>>

\* a product of the seasonal catalog: category, tags, rating and status
\* vary
SeasonalVariants ==
    { <<"Automotive", {}, 4, "active">>,
      <<"Automotive", {"outdoor"}, 5, "active">>,
      <<"Automotive", {"warm", "gifts"}, 4, "active">>,
      <<"Books & Media", {}, 4, "active">>,
      <<"Sports & Outdoors", {"winter"}, 4, "active">>,
      <<"Toys & Games", {"summer", "fashion"}, 4, "active">>,
      <<"Electronics", {"outdoor"}, 5, "inactive">> }

SeasonalCatalogs ==
    { [id \in ProductIds |->
          [category |-> v[id][1], brand |-> BrandOf(id), price |-> PriceOf(id),
           averageRating |-> v[id][3], sales |-> 50, status |-> v[id][4],
           tags |-> v[id][2]]] :
        v \in [ProductIds -> SeasonalVariants] }

SeasonalQueries ==
    { <<"u", "n", "d", "e", "f", "i", "n", "e", "d">>, <<"1">>, <<"2">>,
      <<"-", "1">> }

Months == 1..12

InitSeasonal ==
    /\ products \in SeasonalCatalogs
    /\ orders = <<>>
    /\ wishlist = <<>>
    /\ cart = <<>>
    /\ query \in SeasonalQueries
    /\ errorLog = {}
    /\ pc = "start"
    /\ limit = SeasonalDefaultLimit
    /\ userPreferences = NoPreferences
    /\ collaborativeRecs = <<>>
    /\ contentRecs = <<>>
    /\ recommendations = <<>>
    /\ response = NoResponse
    /\ month \in Months
    /\ req = NoRequest
    /\ refunds = <<>>
    /\ served = 0
    /\ intents = <<>>
    /\ addresses = <<>>

NextSeasonal == Seasonal

SpecSeasonal == InitSeasonal /\ [][NextSeasonal]_vars

-----------------------------------------------------------------------------
(* Orders and payments: POST /api/orders (admin.js:676-781),               *)
(* PUT /api/orders/:id/cancel (admin.js:899-956) and                       *)
(* POST /api/payments/refund (payments.js:116-181).  Each request is       *)
(* served in one step.  An order document is                               *)
(*   [user, isPaid, orderItems, status, stripePaymentIntentId, totalPrice, *)
(*    refund, statusHistory]                                               *)
(* and its _id is its position in `orders`; a product document carries     *)
(* `stock` next to the fields above.  Money is in whole currency units in  *)
(* the documents and in cents at the payment provider.                     *)

\* most orders / payments requests in one behaviour
MaxRequests == 3

\* req.user as the `protect` middleware leaves it
Accounts ==
    { [id |-> "u1", role |-> "user"], [id |-> "u2", role |-> "user"],
      [id |-> "a1", role |-> "admin"] }

Request(handler, account) ==
    [handler |-> handler, user |-> account.id, role |-> account.role]

Status(code) == [status |-> code, recommendations |-> <<>>]

\* refund sub-document of a new order: the schema's defaults
NoRefund == [requested |-> FALSE, amount |-> 0, status |-> "pending"]

NoIntent == "none"

OrderDoc(u, paid, items, status, intent) ==
    [user |-> u, isPaid |-> paid, orderItems |-> items, status |-> status,
     stripePaymentIntentId |-> intent, totalPrice |-> TotalSpent(items),
     refund |-> NoRefund, statusHistory |-> <<>>]

StockedProduct(id, stock, sales) ==
    [category |-> CategoryOf(id), brand |-> BrandOf(id), price |-> PriceOf(id),
     averageRating |-> 4, sales |-> sales, status |-> "active",
     stock |-> stock]

\* the verification loop of POST /api/orders: 404 for the first item whose
\* product is not found, 400 for the first one short of stock, 0 when
\* every item passes
RECURSIVE VerifyItems(_, _)
VerifyItems(prods, items) ==
    IF items = <<>> THEN 0
    ELSE LET item == Head(items) IN
         IF item.product \notin DOMAIN prods
            \/ prods[item.product].status = "deleted" THEN 404
         ELSE IF prods[item.product].stock < item.quantity THEN 400
         ELSE VerifyItems(prods, Tail(items))

\* Product.findByIdAndUpdate(id, { $inc: { stock, sales } }): no document,
\* no update; the update runs no validator
IncStockAndSales(prods, id, byStock, bySales) ==
    IF id \notin DOMAIN prods \/ prods[id].status = "deleted" THEN prods
    ELSE [prods EXCEPT ![id].stock = @ + byStock, ![id].sales = @ + bySales]

\* for (let item of orderItems) $inc { stock: -quantity, sales: quantity }
RECURSIVE TakeFromStock(_, _)
TakeFromStock(prods, items) ==
    IF items = <<>> THEN prods
    ELSE TakeFromStock(IncStockAndSales(prods, Head(items).product,
                                        0 - Head(items).quantity,
                                        Head(items).quantity),
                       Tail(items))

\* a cancellation that gives the stock back and leaves the sales
RECURSIVE RestoreStockOnly(_, _)
RestoreStockOnly(prods, items) ==
    IF items = <<>> THEN prods
    ELSE RestoreStockOnly(IncStockAndSales(prods, Head(items).product,
                                           Head(items).quantity, 0),
                          Tail(items))

\* for (let item of order.orderItems) $inc { stock: quantity,
\* sales: -quantity }
RECURSIVE RestoreStock(_, _)
RestoreStock(prods, items) ==
    IF items = <<>> THEN prods
    ELSE RestoreStock(IncStockAndSales(prods, Head(items).product,
                                       Head(items).quantity,
                                       0 - Head(items).quantity),
                      Tail(items))

\* order.save() of an existing order: the pre('save') hook appends the
\* status to statusHistory when it was modified
SaveOrder(stored, doc) ==
    IF doc.status # stored.status
    THEN [doc EXCEPT !.statusHistory = Append(@, doc.status)]
    ELSE doc

\* the orderItems a client sends: one line, or two lines of one product;
\* the empty array fails the validation of the body
OrderBodies ==
    { <<>> } \cup
    { <<LineItem(p, PriceOf(p), q)>> : p \in {1, 2}, q \in {1, 2} } \cup
    { <<LineItem(1, PriceOf(1), 1), LineItem(1, PriceOf(1), 1)>> }

\* POST /api/orders.  order.save() may be refused (a validation error, a
\* failed write): the catch answers 500 before any stock is touched.
CreateOrder ==
    /\ pc = "idle"
    /\ served < MaxRequests
    /\ Len(orders) < MaxOrders
    /\ \E account \in Accounts, items \in OrderBodies, saved \in BOOLEAN :
          LET verdict == VerifyItems(products, items)
              code == IF items = <<>> THEN 400
                      ELSE IF verdict # 0 THEN verdict
                      ELSE IF ~saved THEN 500 ELSE 201
          IN  /\ req' = Request("create", account)
              /\ response' = Status(code)
              /\ IF code = 201
                 THEN /\ orders' = Append(orders,
                             OrderDoc(account.id, FALSE, items, "pending",
                                      NoIntent))
                      /\ products' = TakeFromStock(products, items)
                      /\ cart' = IF account.id = Requester THEN <<>> ELSE cart
                 ELSE UNCHANGED <<orders, products, cart>>
    /\ served' = served + 1
    /\ UNCHANGED <<wishlist, query, errorLog, pc, limit, userPreferences,
                   collaborativeRecs, contentRecs, recommendations, month,
                   refunds, intents, addresses>>

\* PUT /api/orders/:id/cancel.  The stock is restored before order.save():
\* when the save fails the products keep the update.
CancelOrder ==
    /\ pc = "idle"
    /\ served < MaxRequests
    /\ \E account \in Accounts, id \in 1..(Len(orders) + 1),
          saved \in BOOLEAN :
          LET found == id <= Len(orders)
              order == orders[id]
              code == IF ~found THEN 404
                      ELSE IF order.user # account.id THEN 403
                      ELSE IF order.status \in {"shipped", "delivered"}
                      THEN 400
                      ELSE IF ~saved THEN 500 ELSE 200
          IN  /\ req' = Request("cancel", account)
              /\ response' = Status(code)
              /\ products' = IF code \in {200, 500}
                             THEN RestoreStock(products, order.orderItems)
                             ELSE products
              /\ orders' = IF code = 200
                           THEN [orders EXCEPT ![id] =
                                   SaveOrder(order,
                                       [order EXCEPT !.status = "cancelled"])]
                           ELSE orders
    /\ served' = served + 1
    /\ UNCHANGED <<wishlist, cart, query, errorLog, pc, limit,
                   userPreferences, collaborativeRecs, contentRecs,
                   recommendations, month, refunds, intents, addresses>>

\* what the payment provider holds for a payment intent: the cents
\* captured (the order's total) less the refunds already created
RECURSIVE RefundedCents(_, _)
RefundedCents(created, intent) ==
    IF created = <<>> THEN 0
    ELSE (IF Head(created).payment_intent = intent
          THEN Head(created).amount ELSE 0)
         + RefundedCents(Tail(created), intent)

RemainingCents(order) ==
    order.totalPrice * 100
        - RefundedCents(refunds, order.stripePaymentIntentId)

\* req.body.amount: 0 stands for the absent amount (a full refund)
RefundAmounts == {0, 5}

\* POST /api/payments/refund, behind `protect` alone: every authenticated
\* account is served.  stripe.refunds.create rejects a refund
\* larger than what is left of the payment; its rejection and a failed
\* order.save() both end in the catch (500), the latter after the refund
\* was created.
Refund ==
    /\ pc = "idle"
    /\ served < MaxRequests
    /\ \E account \in Accounts, id \in 1..(Len(orders) + 1),
          amount \in RefundAmounts, saved \in BOOLEAN :
          LET found == id <= Len(orders)
              order == orders[id]
              remaining == RemainingCents(order)
              cents == IF amount # 0 THEN amount * 100 ELSE remaining
              created == /\ found
                         /\ order.isPaid
                         /\ order.stripePaymentIntentId # NoIntent
                         /\ remaining > 0
                         /\ cents <= remaining
              code == IF ~found THEN 404
                      ELSE IF ~order.isPaid
                              \/ order.stripePaymentIntentId = NoIntent
                      THEN 400
                      ELSE IF ~created \/ ~saved THEN 500 ELSE 200
              refunded == [order EXCEPT
                              !.refund = [requested |-> TRUE,
                                          amount |-> cents \div 100,
                                          status |-> "processed"],
                              !.status = IF cents >= order.totalPrice * 100
                                         THEN "refunded" ELSE @]
          IN  /\ req' = Request("refund", account)
              /\ response' = Status(code)
              /\ refunds' = IF created
                            THEN Append(refunds,
                                    [payment_intent |->
                                         order.stripePaymentIntentId,
                                     amount |-> cents])
                            ELSE refunds
              /\ orders' = IF code = 200
                           THEN [orders EXCEPT ![id] =
                                    SaveOrder(order, refunded)]
                           ELSE orders
    /\ served' = served + 1
    /\ UNCHANGED <<products, wishlist, cart, query, errorLog, pc, limit,
                   userPreferences, collaborativeRecs, contentRecs,
                   recommendations, month, intents, addresses>>

\* the orders in the store before the first request: one line of product
\* 1, not yet paid, or paid through a payment intent
StoredOrders ==
    { OrderDoc(u, FALSE, <<LineItem(1, PriceOf(1), 1)>>, "pending", NoIntent) :
        u \in {"u1", "u2"} }
    \cup { OrderDoc(u, TRUE, <<LineItem(1, PriceOf(1), 1)>>, st, "pi_1") :
             u \in {"u1"}, st \in {"confirmed", "shipped"} }

\* the quantity of product p the orders hold
RECURSIVE QuantityHeld(_, _)
QuantityHeld(os, p) ==
    IF os = <<>> THEN 0
    ELSE ItemCount(SelectSeq(Head(os).orderItems,
                             LAMBDA it : it.product = p))
         + QuantityHeld(Tail(os), p)

\* sales counts what the stored orders hold; stock is what is left
InitOrders ==
    /\ orders \in SeqsUpTo(StoredOrders, 1)
    /\ \E left \in {1, 2} :
          products = [id \in ProductIds |->
                        StockedProduct(id, left, QuantityHeld(orders, id))]
    /\ wishlist = <<>>
    /\ cart \in {<<>>, <<[product |-> 1, quantity |-> 1]>>}
    /\ query = <<>>
    /\ errorLog = {}
    /\ pc = "idle"
    /\ limit = DefaultLimit
    /\ userPreferences = NoPreferences
    /\ collaborativeRecs = <<>>
    /\ contentRecs = <<>>
    /\ recommendations = <<>>
    /\ response = NoResponse
    /\ month = 1
    /\ req = NoRequest
    /\ refunds = <<>>
    /\ served = 0
    /\ intents = <<>>
    /\ addresses = <<>>

NextOrders ==
    \/ CreateOrder
    \/ CancelOrder
    \/ Refund

SpecOrders == InitOrders /\ [][NextOrders]_vars

-----------------------------------------------------------------------------
(* Payment of orders: PUT /api/orders/:id/pay, the payment routes and the  *)
(* provider's webhook, and the admin's PUT /api/orders/:id/status.         *)

\* the ids the payment provider gives to the intents it creates
IntentIds == <<"pi_1", "pi_2", "pi_3">>

\* a payment intent at the provider; orderId 0 is metadata.orderId = ''
Intent(id, status, orderId, userId) ==
    [id |-> id, status |-> status, orderId |-> orderId, userId |-> userId]

\* the enum of orderSchema.status
OrderStatuses ==
    {"pending", "confirmed", "processing", "shipped", "delivered",
     "cancelled", "refunded"}

\* order.isPaid = true; order.status = 'confirmed'
MarkPaid(order) == [order EXCEPT !.isPaid = TRUE, !.status = "confirmed"]

\* Order.findByIdAndUpdate(id, update): the fields of the update document are
\* set on the order; no document, no change; neither validators nor save
\* hooks run
FindByIdAndUpdate(os, id, update) ==
    IF id \in 1..Len(os)
    THEN [os EXCEPT ![id] =
            [f \in DOMAIN os[id] |->
                IF f \in DOMAIN update THEN update[f] ELSE os[id][f]]]
    ELSE os

\* PUT /api/orders/:id/pay
Pay ==
    /\ pc = "idle"
    /\ served < MaxRequests
    /\ \E account \in Accounts, id \in 1..(Len(orders) + 1),
          saved \in BOOLEAN :
          LET found == id <= Len(orders)
              order == orders[id]
              code == IF ~found THEN 404
                      ELSE IF order.user # account.id THEN 403
                      ELSE IF ~saved THEN 500 ELSE 200
          IN  /\ req' = Request("pay", account)
              /\ response' = Status(code)
              /\ orders' = IF code = 200
                           THEN [orders EXCEPT ![id] =
                                    SaveOrder(order, MarkPaid(order))]
                           ELSE orders
    /\ served' = served + 1
    /\ UNCHANGED <<products, wishlist, cart, query, errorLog, pc, limit,
                   userPreferences, collaborativeRecs, contentRecs,
                   recommendations, month, refunds, intents, addresses>>

\* the amounts a client sends to create-payment-intent
IntentAmounts == {10, 1000}

\* POST /api/payments/create-payment-intent; orderId 0 is no orderId
CreatePaymentIntent ==
    /\ pc = "idle"
    /\ served < MaxRequests
    /\ Len(intents) < Len(IntentIds)
    /\ \E account \in Accounts, amount \in IntentAmounts,
          orderId \in 0..(Len(orders) + 1), created \in BOOLEAN :
          LET code == IF amount < 50 THEN 400
                      ELSE IF ~created THEN 500 ELSE 200
              id == IntentIds[Len(intents) + 1]
          IN  /\ req' = Request("create-payment-intent", account)
              /\ response' = Status(code)
              /\ intents' = IF code = 200
                            THEN Append(intents,
                                    Intent(id, "requires_payment_method",
                                           orderId, account.id))
                            ELSE intents
              /\ orders' = IF code = 200
                           THEN FindByIdAndUpdate(orders, orderId,
                                    [stripePaymentIntentId |-> id])
                           ELSE orders
    /\ served' = served + 1
    /\ UNCHANGED <<products, wishlist, cart, query, errorLog, pc, limit,
                   userPreferences, collaborativeRecs, contentRecs,
                   recommendations, month, refunds, addresses>>

\* the customer pays at the provider: the intent succeeds
Settle ==
    /\ pc = "idle"
    /\ \E k \in 1..Len(intents) :
          /\ intents[k].status = "requires_payment_method"
          /\ intents' = [intents EXCEPT ![k].status = "succeeded"]
    /\ UNCHANGED <<products, orders, wishlist, cart, query, errorLog, pc,
                   limit, userPreferences, collaborativeRecs, contentRecs,
                   recommendations, response, month, req, refunds, served,
                   addresses>>

\* POST /api/payments/confirm-payment
ConfirmPayment ==
    /\ pc = "idle"
    /\ served < MaxRequests
    /\ \E account \in Accounts, k \in 1..(Len(intents) + 1),
          orderId \in 1..(Len(orders) + 1), saved \in BOOLEAN :
          LET retrieved == k <= Len(intents)
              found == orderId <= Len(orders)
              order == orders[orderId]
              code == IF ~retrieved THEN 500
                      ELSE IF intents[k].status # "succeeded" THEN 400
                      ELSE IF ~found THEN 404
                      ELSE IF ~saved THEN 500 ELSE 200
          IN  /\ req' = [handler |-> "confirm-payment",
                          user |-> account.id, role |-> account.role,
                          paymentIntentId |->
                              IF retrieved THEN intents[k].id ELSE "pi_0",
                          orderId |-> orderId]
              /\ response' = Status(code)
              /\ orders' = IF code = 200
                           THEN [orders EXCEPT ![orderId] =
                                    SaveOrder(order, MarkPaid(order))]
                           ELSE orders
    /\ served' = served + 1
    /\ UNCHANGED <<products, wishlist, cart, query, errorLog, pc, limit,
                   userPreferences, collaborativeRecs, contentRecs,
                   recommendations, month, refunds, intents, addresses>>

WebhookEvents ==
    {"payment_intent.succeeded", "payment_intent.payment_failed",
     "refund.created"}

\* POST /api/payments/webhook: an event of the provider about one of its
\* intents, or a request whose signature does not verify
Webhook ==
    /\ pc = "idle"
    /\ served < MaxRequests
    /\ \E k \in 1..Len(intents), type \in WebhookEvents, signed \in BOOLEAN :
          LET intent == intents[k] IN
          /\ type = "payment_intent.succeeded" => intent.status = "succeeded"
          /\ type = "payment_intent.payment_failed"
                => intent.status = "requires_payment_method"
          /\ req' = [handler |-> "webhook", user |-> "stripe",
                     role |-> "provider"]
          /\ response' = Status(IF signed THEN 200 ELSE 400)
          /\ orders' =
                IF ~signed \/ intent.orderId = 0 THEN orders
                ELSE IF type = "payment_intent.succeeded"
                THEN FindByIdAndUpdate(orders, intent.orderId,
                        [isPaid |-> TRUE, status |-> "confirmed"])
                ELSE IF type = "payment_intent.payment_failed"
                THEN FindByIdAndUpdate(orders, intent.orderId,
                        [status |-> "payment_failed"])
                ELSE orders
    /\ served' = served + 1
    /\ UNCHANGED <<products, wishlist, cart, query, errorLog, pc, limit,
                   userPreferences, collaborativeRecs, contentRecs,
                   recommendations, month, refunds, intents, addresses>>

\* the values of req.body.status the admin's client sends
StatusInputs == {"processing", "shipped", "delivered", "archived"}

\* PUT /api/orders/:id/status behind authorize('admin'); order.save()
\* validates the status against the enum
UpdateStatus ==
    /\ pc = "idle"
    /\ served < MaxRequests
    /\ \E account \in Accounts, id \in 1..(Len(orders) + 1),
          status \in StatusInputs, saved \in BOOLEAN :
          LET found == id <= Len(orders)
              order == orders[id]
              code == IF account.role # "admin" THEN 403
                      ELSE IF ~found THEN 404
                      ELSE IF status \notin OrderStatuses \/ ~saved THEN 500
                      ELSE 200
          IN  /\ req' = Request("status", account)
              /\ response' = Status(code)
              /\ orders' = IF code = 200
                           THEN [orders EXCEPT ![id] =
                                    SaveOrder(order,
                                        [order EXCEPT !.status = status])]
                           ELSE orders
    /\ served' = served + 1
    /\ UNCHANGED <<products, wishlist, cart, query, errorLog, pc, limit,
                   userPreferences, collaborativeRecs, contentRecs,
                   recommendations, month, refunds, intents, addresses>>

\* the stored orders the payment requests start from: an order of u1 paid
\* with intent pi_1, or cancelled, and a pending order of u2
PaymentOrders ==
    { <<OrderDoc("u1", TRUE, <<LineItem(1, PriceOf(1), 1)>>, "confirmed",
                 "pi_1"),
        OrderDoc("u2", FALSE, <<LineItem(1, PriceOf(1), 1)>>, "pending",
                 NoIntent)>>,
      <<OrderDoc("u1", FALSE, <<LineItem(1, PriceOf(1), 1)>>, "cancelled",
                 NoIntent)>>,
      <<OrderDoc("u1", FALSE, <<LineItem(1, PriceOf(1), 1)>>, "pending",
                 NoIntent)>>,
      <<>> }

InitPayments ==
    /\ orders \in PaymentOrders
    /\ products = [id \in ProductIds |->
                     StockedProduct(id, 1,
                         QuantityHeld(SelectSeq(orders,
                             LAMBDA o : o.status # "cancelled"), id))]
    /\ wishlist = <<>>
    /\ cart = <<>>
    /\ query = <<>>
    /\ errorLog = {}
    /\ pc = "idle"
    /\ limit = DefaultLimit
    /\ userPreferences = NoPreferences
    /\ collaborativeRecs = <<>>
    /\ contentRecs = <<>>
    /\ recommendations = <<>>
    /\ response = NoResponse
    /\ month = 1
    /\ req = NoRequest
    /\ refunds = <<>>
    /\ served = 0
    /\ intents = IF Len(orders) = 2
                 THEN <<Intent("pi_1", "succeeded", 1, "u1")>> ELSE <<>>
    /\ addresses = <<>>

NextPayments ==
    \/ CreateOrder
    \/ CancelOrder
    \/ Refund
    \/ Pay
    \/ CreatePaymentIntent
    \/ Settle
    \/ ConfirmPayment
    \/ Webhook
    \/ UpdateStatus

SpecPayments == InitPayments /\ [][NextPayments]_vars

-----------------------------------------------------------------------------
(* The cart routes of one user: POST /api/users/cart, PUT and DELETE       *)
(* /api/users/cart/:productId, DELETE /api/users/cart.                     *)

\* a product id as a client writes it: the 24 hex digits of the ObjectId
\* of product p in lower or in upper case, the id of no product
\* (product 0), or a string that is no ObjectId
HexId(p, upper) == [kind |-> "hex", product |-> p, upper |-> upper]

NotAnId == [kind |-> "other", product |-> 0, upper |-> FALSE]

\* the cast of findById: hex digits are read in either case; a string that
\* is no ObjectId makes the query throw (-1)
CastObjectId(id) == IF id.kind = "hex" THEN id.product ELSE -1

\* ObjectId.prototype.toString(): lower-case hex digits
ObjectIdToString(p) == HexId(p, FALSE)

\* req.body.quantity: a JSON number, or a string of one digit
QuantityNumber(n) == [kind |-> "number", value |-> n]

QuantityString(n) == [kind |-> "string", value |-> n]

\* isInt({ min: 1 }) on the value as a string
IsIntMin1(q) == q.value >= 1

\* existingCartItem.quantity + quantity: a sum of numbers, or the digits
\* of the stored quantity followed by the string
PlusQuantity(stored, q) ==
    IF q.kind = "number" THEN stored + q.value ELSE stored * 10 + q.value

\* user.cart.find(item => item.product.toString() === productId): the
\* position of the first such entry, 0 when there is none
RECURSIVE FindCartItem(_, _, _)
FindCartItem(ct, id, from) ==
    IF from > Len(ct) THEN 0
    ELSE IF ObjectIdToString(ct[from].product) = id THEN from
    ELSE FindCartItem(ct, id, from + 1)

CartRequest(handler, id, q) ==
    [handler |-> handler, user |-> Requester, role |-> "user",
     productId |-> id, quantity |-> q]

\* what the cart requests carry
CartIds ==
    { HexId(p, upper) : p \in {1, 2}, upper \in BOOLEAN }
        \cup { HexId(0, FALSE), NotAnId }

CartQuantities ==
    { QuantityNumber(n) : n \in 0..2 } \cup { QuantityString(1) }

\* POST /api/users/cart
AddToCart ==
    /\ pc = "idle"
    /\ served < MaxRequests
    /\ \E id \in CartIds, q \in CartQuantities, saved \in BOOLEAN :
          LET p == CastObjectId(id)
              at == FindCartItem(cart, id, 1)
              newQuantity == IF at = 0 THEN q.value
                             ELSE PlusQuantity(cart[at].quantity, q)
              code == IF ~IsIntMin1(q) THEN 400
                      ELSE IF p = -1 THEN 500
                      ELSE IF p \notin DOMAIN products THEN 404
                      ELSE IF products[p].stock < q.value THEN 400
                      ELSE IF at # 0 /\ products[p].stock < newQuantity
                      THEN 400
                      ELSE IF ~saved THEN 500 ELSE 200
          IN  /\ req' = CartRequest("cart-add", id, q)
              /\ response' = Status(code)
              /\ cart' = IF code # 200 THEN cart
                         ELSE IF at # 0
                         THEN [cart EXCEPT ![at].quantity = newQuantity]
                         ELSE Append(cart,
                                 [product |-> p, quantity |-> q.value])
    /\ served' = served + 1
    /\ UNCHANGED <<products, orders, wishlist, query, errorLog, pc, limit,
                   userPreferences, collaborativeRecs, contentRecs,
                   recommendations, month, refunds, intents, addresses>>

\* PUT /api/users/cart/:productId
UpdateCart ==
    /\ pc = "idle"
    /\ served < MaxRequests
    /\ \E id \in CartIds, q \in CartQuantities, saved \in BOOLEAN :
          LET p == CastObjectId(id)
              at == FindCartItem(cart, id, 1)
              code == IF ~IsIntMin1(q) THEN 400
                      ELSE IF p = -1 THEN 500
                      ELSE IF p \notin DOMAIN products THEN 404
                      ELSE IF products[p].stock < q.value THEN 400
                      ELSE IF at = 0 THEN 404
                      ELSE IF ~saved THEN 500 ELSE 200
          IN  /\ req' = CartRequest("cart-update", id, q)
              /\ response' = Status(code)
              /\ cart' = IF code = 200
                         THEN [cart EXCEPT ![at].quantity = q.value]
                         ELSE cart
    /\ served' = served + 1
    /\ UNCHANGED <<products, orders, wishlist, query, errorLog, pc, limit,
                   userPreferences, collaborativeRecs, contentRecs,
                   recommendations, month, refunds, intents, addresses>>

\* DELETE /api/users/cart/:productId
RemoveFromCart ==
    /\ pc = "idle"
    /\ served < MaxRequests
    /\ \E id \in CartIds, saved \in BOOLEAN :
          /\ req' = CartRequest("cart-remove", id, QuantityNumber(0))
          /\ response' = Status(IF saved THEN 200 ELSE 500)
          /\ cart' = IF saved
                     THEN SelectSeq(cart,
                             LAMBDA item : ObjectIdToString(item.product) # id)
                     ELSE cart
    /\ served' = served + 1
    /\ UNCHANGED <<products, orders, wishlist, query, errorLog, pc, limit,
                   userPreferences, collaborativeRecs, contentRecs,
                   recommendations, month, refunds, intents, addresses>>

\* DELETE /api/users/cart
ClearCart ==
    /\ pc = "idle"
    /\ served < MaxRequests
    /\ \E updated \in BOOLEAN :
          /\ req' = CartRequest("cart-clear", NotAnId, QuantityNumber(0))
          /\ response' = Status(IF updated THEN 200 ELSE 500)
          /\ cart' = IF updated THEN <<>> ELSE cart
    /\ served' = served + 1
    /\ UNCHANGED <<products, orders, wishlist, query, errorLog, pc, limit,
                   userPreferences, collaborativeRecs, contentRecs,
                   recommendations, month, refunds, intents, addresses>>

\* product 1 is short of stock, the others are not
InitCart ==
    /\ \E left \in {1, 2} :
          products = [id \in ProductIds |->
                        StockedProduct(id, IF id = 1 THEN left ELSE 12, 0)]
    /\ orders = <<>>
    /\ wishlist = <<>>
    /\ cart = <<>>
    /\ query = <<>>
    /\ errorLog = {}
    /\ pc = "idle"
    /\ limit = DefaultLimit
    /\ userPreferences = NoPreferences
    /\ collaborativeRecs = <<>>
    /\ contentRecs = <<>>
    /\ recommendations = <<>>
    /\ response = NoResponse
    /\ month = 1
    /\ req = NoRequest
    /\ refunds = <<>>
    /\ served = 0
    /\ intents = <<>>
    /\ addresses = <<>>

NextCart ==
    \/ AddToCart
    \/ UpdateCart
    \/ RemoveFromCart
    \/ ClearCart

SpecCart == InitCart /\ [][NextCart]_vars

-----------------------------------------------------------------------------
(* The address routes of one user: POST /api/users/addresses, PUT and      *)
(* DELETE /api/users/addresses/:addressId.                                 *)

Address(id, isDefault) == [id |-> id, isDefault |-> isDefault]

\* req.body.isDefault: not sent, true or false
IsDefaultInputs == {"absent", "true", "false"}

\* the value read as a condition
Truthy(input) == input = "true"

\* user.addresses.forEach(address => { address.isDefault = false; })
ClearDefaults(list) == [i \in 1..Len(list) |-> Address(list[i].id, FALSE)]

\* user.addresses.id(addressId): the position of the subdocument, 0 when
\* there is none
AddressAt(list, id) ==
    IF \E i \in 1..Len(list) : list[i].id = id
    THEN CHOOSE i \in 1..Len(list) : list[i].id = id
    ELSE 0

AddressRequest(handler, id, input) ==
    [handler |-> handler, user |-> Requester, role |-> "user",
     addressId |-> id, isDefault |-> input]

\* POST /api/users/addresses; the new subdocument gets a fresh id
AddAddress ==
    /\ pc = "idle"
    /\ served < MaxRequests
    /\ \E input \in IsDefaultInputs, valid \in BOOLEAN, saved \in BOOLEAN :
          LET isDefault == Truthy(input) \/ Len(addresses) = 0
              kept == IF isDefault THEN ClearDefaults(addresses)
                      ELSE addresses
              code == IF ~valid THEN 400 ELSE IF ~saved THEN 500 ELSE 200
          IN  /\ req' = AddressRequest("address-add", served + 1, input)
              /\ response' = Status(code)
              /\ addresses' = IF code = 200
                              THEN Append(kept, Address(served + 1, isDefault))
                              ELSE addresses
    /\ served' = served + 1
    /\ UNCHANGED <<products, orders, wishlist, cart, query, errorLog, pc,
                   limit, userPreferences, collaborativeRecs, contentRecs,
                   recommendations, month, refunds, intents>>

\* PUT /api/users/addresses/:addressId
UpdateAddress ==
    /\ pc = "idle"
    /\ served < MaxRequests
    /\ \E id \in 0..MaxRequests, input \in IsDefaultInputs,
          saved \in BOOLEAN :
          LET at == AddressAt(addresses, id)
              kept == IF Truthy(input) THEN ClearDefaults(addresses)
                      ELSE addresses
              code == IF at = 0 THEN 404 ELSE IF ~saved THEN 500 ELSE 200
          IN  /\ req' = AddressRequest("address-update", id, input)
              /\ response' = Status(code)
              /\ addresses' =
                    IF code # 200 THEN addresses
                    ELSE IF input = "absent" THEN kept
                    ELSE [kept EXCEPT ![at].isDefault = Truthy(input)]
    /\ served' = served + 1
    /\ UNCHANGED <<products, orders, wishlist, cart, query, errorLog, pc,
                   limit, userPreferences, collaborativeRecs, contentRecs,
                   recommendations, month, refunds, intents>>

\* DELETE /api/users/addresses/:addressId
DeleteAddress ==
    /\ pc = "idle"
    /\ served < MaxRequests
    /\ \E id \in 0..MaxRequests, saved \in BOOLEAN :
          LET at == AddressAt(addresses, id)
              wasDefault == addresses[at].isDefault
              pulled == SelectSeq(addresses, LAMBDA a : a.id # id)
              code == IF at = 0 THEN 404 ELSE IF ~saved THEN 500 ELSE 200
          IN  /\ req' = AddressRequest("address-delete", id, "absent")
              /\ response' = Status(code)
              /\ addresses' =
                    IF code # 200 THEN addresses
                    ELSE IF wasDefault /\ Len(pulled) > 0
                    THEN [pulled EXCEPT ![1].isDefault = TRUE]
                    ELSE pulled
    /\ served' = served + 1
    /\ UNCHANGED <<products, orders, wishlist, cart, query, errorLog, pc,
                   limit, userPreferences, collaborativeRecs, contentRecs,
                   recommendations, month, refunds, intents>>

\* a new user without addresses, or a seeded one with a default address
InitAddresses ==
    /\ products \in CatalogsByStatus({"active"})
    /\ orders = <<>>
    /\ wishlist = <<>>
    /\ cart = <<>>
    /\ query = <<>>
    /\ errorLog = {}
    /\ pc = "idle"
    /\ limit = DefaultLimit
    /\ userPreferences = NoPreferences
    /\ collaborativeRecs = <<>>
    /\ contentRecs = <<>>
    /\ recommendations = <<>>
    /\ response = NoResponse
    /\ month = 1
    /\ req = NoRequest
    /\ refunds = <<>>
    /\ served = 0
    /\ intents = <<>>
    /\ addresses \in { <<>>, <<Address(0, TRUE)>> }

NextAddresses ==
    \/ AddAddress
    \/ UpdateAddress
    \/ DeleteAddress

SpecAddresses == InitAddresses /\ [][NextAddresses]_vars

-----------------------------------------------------------------------------
(* Properties of combineRecommendations (SpecCombine).                     *)

Combined == pc \in {"respond", "done"}

\* C1: for every pair of input lists and every limit N the handler can
\* pass, the list combineRecommendations returns has at most N items.
C1_LengthAtMostLimit ==
    Combined => Len(recommendations) <= limit

\* C2: no two items of the list combineRecommendations returns have the
\* same _id, whatever the input lists repeat.
C2_UniqueIdentity ==
    Combined =>
        \A i, j \in 1..Len(recommendations) :
            i # j => recommendations[i]._id # recommendations[j]._id

\* the same product in both input lists and twice in one of them, and two
\* or more products returned
C2_Witness ==
    /\ Combined
    /\ Len(recommendations) >= 2
    /\ \E i \in 1..Len(collaborativeRecs), j \in 1..Len(contentRecs) :
          collaborativeRecs[i]._id = contentRecs[j]._id
    /\ \E i, j \in 1..Len(contentRecs) :
          i # j /\ contentRecs[i]._id = contentRecs[j]._id

\* C3: every returned item is, with its score and type untouched, the
\* first occurrence of its product in collaborative ++ contentBased.
C3_FirstOccurrenceUnchanged ==
    Combined =>
        LET inputs == collaborativeRecs \o contentRecs IN
        \A i \in 1..Len(recommendations) :
            \E k \in 1..Len(inputs) :
                /\ inputs[k] = recommendations[i]
                /\ \A j \in 1..(k - 1) :
                      inputs[j]._id # recommendations[i]._id

\* a product of both lists, scored differently by the two, is returned
\* with the collaborative list's score
C3_Witness ==
    /\ Combined
    /\ \E i \in 1..Len(collaborativeRecs), j \in 1..Len(contentRecs),
          k \in 1..Len(recommendations) :
          /\ collaborativeRecs[i]._id = contentRecs[j]._id
          /\ collaborativeRecs[i].recommendationScore
                # contentRecs[j].recommendationScore
          /\ recommendations[k] = collaborativeRecs[i]

-----------------------------------------------------------------------------
(* Properties of the whole request (Spec).                                 *)

\* C4: the list combineRecommendations returns is ordered by
\* recommendationScore descending -- every item's score is >= the score of
\* the item after it -- for every pair of lists the pipeline produces, the
\* cold-start list included.
C4_SortedByScore ==
    Combined =>
        \A i \in 1..(Len(recommendations) - 1) :
            JsGeq(recommendations[i].recommendationScore,
                  recommendations[i + 1].recommendationScore)

-----------------------------------------------------------------------------
(* Properties of getCollaborativeRecommendations (SpecCollab), stated on   *)
(* the Order collection itself.                                            *)

\* <<k, j>>: line item j of order k, for the paid orders of the users in U
PaidLines(U) ==
    UNION { { <<k, j>> : j \in 1..Len(orders[k].orderItems) } :
              k \in { n \in 1..Len(orders) :
                        orders[n].user \in U /\ orders[n].isPaid } }

ProductAt(line) == orders[line[1]].orderItems[line[2]].product

\* the products the requester has bought in paid orders
RequesterProducts == { ProductAt(l) : l \in PaidLines({Requester}) }

\* the other users with a paid order naming a product of the requester
Neighbors ==
    { u \in Users \ {Requester} :
        \E l \in PaidLines({u}) : ProductAt(l) \in RequesterProducts }

AfterCollaborative == pc = "content"

\* C5: no product getCollaborativeRecommendations returns is a line item
\* of a paid order of the target user.
C5_NeverAlreadyPurchased ==
    AfterCollaborative =>
        \A i \in 1..Len(collaborativeRecs) :
            collaborativeRecs[i]._id \notin RequesterProducts

\* something is recommended although a neighbor bought one of the
\* requester's products together with another product in one order
C5_Witness ==
    /\ AfterCollaborative
    /\ collaborativeRecs # <<>>
    /\ \E l, m \in PaidLines(Neighbors) :
          /\ l[1] = m[1]
          /\ ProductAt(l) \in RequesterProducts
          /\ ProductAt(m) \notin RequesterProducts

\* C6: for a user with no purchased product in paid orders the function
\* returns the empty list, and it never raises an error to its caller.
C6_EmptyWithoutPurchasesNeverThrows ==
    /\ pc # "error"
    /\ (AfterCollaborative /\ RequesterProducts = {})
          => collaborativeRecs = <<>>

\* a requester without purchases, other users with paid orders, and a
\* failure inside the function that its catch has logged
C6_Witness ==
    /\ AfterCollaborative
    /\ RequesterProducts = {}
    /\ PaidLines(Users \ {Requester}) # {}
    /\ "Collaborative filtering error:" \in errorLog

-----------------------------------------------------------------------------
(* Properties of getUserPreferences (SpecPrefs).                           *)

AfterPreferences == pc = "collab"

PriceAt(line) == orders[line[1]].orderItems[line[2]].price

QuantityAt(line) == orders[line[1]].orderItems[line[2]].quantity

\* the line items of the requester's paid orders whose product document
\* still exists: the ones the purchase loop does not skip
ResolvedLines ==
    { l \in PaidLines({Requester}) : products[ProductAt(l)].status # "deleted" }

RECURSIVE SumQuantity(_)
SumQuantity(lines) ==
    IF lines = {} THEN 0
    ELSE LET l == CHOOSE x \in lines : TRUE
         IN  QuantityAt(l) + SumQuantity(lines \ {l})

RECURSIVE SumSpend(_)
SumSpend(lines) ==
    IF lines = {} THEN 0
    ELSE LET l == CHOOSE x \in lines : TRUE
         IN  PriceAt(l) * QuantityAt(l) + SumSpend(lines \ {l})

HasPaidOrders ==
    \E k \in 1..Len(orders) : orders[k].user = Requester /\ orders[k].isPaid

\* C8: without paid orders priceRange.max is undefined/absent; it is never
\* -Infinity or NaN; with purchased line items it is their maximum unit
\* price.
C8_MaxPriceGuarded ==
    AfterPreferences =>
        LET max == userPreferences.priceRange.max IN
        /\ ~HasPaidOrders => max = Undefined
        /\ max.kind \notin {"-Infinity", "NaN"}
        /\ PaidLines({Requester}) # {} =>
              /\ IsNumber(max)
              /\ \E l \in PaidLines({Requester}) : max = Num(PriceAt(l))
              /\ \A l \in PaidLines({Requester}) : PriceAt(l) <= max.num

\* C9: with no paid orders, an empty wishlist and an empty cart the
\* snapshot has empty category and brand lists, avg 0 and totalPurchases
\* 0; in general avg is the total spend (unit price x quantity) divided by
\* the total item count, over the line items the extractor counts (those
\* whose product reference resolves), and 0 when that count is 0.
C9_AveragePrice ==
    AfterPreferences =>
        LET avg == userPreferences.priceRange.avg
            count == SumQuantity(ResolvedLines)
            spend == SumSpend(ResolvedLines)
        IN  /\ (~HasPaidOrders /\ wishlist = <<>> /\ cart = <<>>) =>
                  /\ userPreferences.categories = <<>>
                  /\ userPreferences.brands = <<>>
                  /\ avg = Num(0)
                  /\ userPreferences.totalPurchases = 0
            /\ userPreferences.totalPurchases = count
            /\ IsNumber(avg)
            /\ avg.den > 0
            /\ count = 0 => avg = Num(0)
            /\ count > 0 => avg.num * count = spend * avg.den

\* a requester whose counted line items differ in price and quantity,
\* beside a line item whose product is gone, an unpaid order and another
\* user's order
C9_Witness ==
    /\ AfterPreferences
    /\ \E l, m \in ResolvedLines :
          PriceAt(l) # PriceAt(m) /\ QuantityAt(l) # QuantityAt(m)
    /\ ResolvedLines # PaidLines({Requester})
    /\ userPreferences.priceRange.avg.den > 1

-----------------------------------------------------------------------------
(* Properties of getContentBasedRecommendations (SpecContent).             *)

ColdStartCase ==
    /\ pc = "combine"
    /\ Len(userPreferences.categories) = 0
    /\ \E p \in ProductIds : products[p].status = "active"
    /\ limit >= 1

\* non-empty, active products only, by rating then sales descending, at
\* most `limit` items
ColdStartList ==
    /\ contentRecs # <<>>
    /\ Len(contentRecs) <= limit
    /\ \A i \in 1..Len(contentRecs) :
          products[contentRecs[i]._id].status = "active"
    /\ \A i \in 1..(Len(contentRecs) - 1) :
          LET a == products[contentRecs[i]._id]
              b == products[contentRecs[i + 1]._id]
          IN  \/ a.averageRating > b.averageRating
              \/ a.averageRating = b.averageRating /\ a.sales >= b.sales

-----------------------------------------------------------------------------
(* Properties of the response of GET /personalized (Spec).                 *)

Responded == pc = "done" /\ response.status = 200

\* C11: every item of the recommendations list of the response carries a
\* numeric recommendationScore and a recommendationType that is
\* 'collaborative' or 'content-based', the cold-start path included.
C11_ItemsAnnotated ==
    Responded =>
        \A i \in 1..Len(response.recommendations) :
            /\ IsNumber(response.recommendations[i].recommendationScore)
            /\ response.recommendations[i].recommendationType
                   \in {"collaborative", "content-based"}

-----------------------------------------------------------------------------
(* Properties of the content score (SpecContent).                          *)

\* the scored path has run: the snapshot has a category signal
ScoredCase == pc = "combine" /\ Len(userPreferences.categories) > 0

\* 0-indexed rank of x among the first three of list, 3 when not there
RankInTop3(list, x) ==
    LET top == { i \in 1..Len(list) : i <= 3 /\ list[i] = x }
    IN  IF top = {} THEN 3 ELSE (CHOOSE i \in top : \A j \in top : i <= j) - 1

CategoryRank(item) ==
    RankInTop3(userPreferences.categories, products[item._id].category)

BrandRank(item) ==
    RankInTop3(userPreferences.brands, products[item._id].brand)

\* 100 * avg.num * (categoryBonus + brandBonus + priceBonus + qualityBonus)
\* for avg = avg.num / avg.den > 0, 100 * (the sum without priceBonus)
\* for avg = 0
ExpectedScoreScaled(item) ==
    LET p == products[item._id]
        avg == userPreferences.priceRange.avg
        a == IF avg.num > 0 THEN avg.num ELSE 1
        gap == Abs(p.price * avg.den - avg.num)
        priceScaled == IF avg.num > 0 /\ 2 * avg.num > gap
                       THEN 100 * (2 * avg.num - gap) ELSE 0
        salesScaled == IF p.sales <= 200 THEN p.sales ELSE 200
    IN  ((3 - CategoryRank(item)) * 3 + (3 - BrandRank(item)) * 2
            + p.averageRating) * 100 * a
        + priceScaled + salesScaled * a

ScoreScale ==
    LET avg == userPreferences.priceRange.avg
    IN  100 * (IF avg.num > 0 THEN avg.num ELSE 1)

\* two candidates that differ in category only, as far as the score reads
\* them
AllElseEqual(x, y) ==
    LET p == products[x._id]
        q == products[y._id]
    IN  /\ BrandRank(x) = BrandRank(y)
        /\ p.averageRating = q.averageRating
        /\ p.sales = q.sales
        /\ \/ p.price = q.price
           \/ userPreferences.priceRange.avg.num = 0

\* C12: on the scored path every returned candidate's score is
\* categoryBonus + brandBonus + priceBonus + qualityBonus with
\* categoryBonus = (3 - rank) * 3, brandBonus = (3 - rank) * 2 for the
\* 0-indexed rank in the top-3 list (else 0), priceBonus =
\* max(0, 2 - |price - avg| / avg) for avg > 0 (else 0), qualityBonus =
\* rating + min(sales / 100, 2); and of two candidates equal in all else,
\* the one in the #1 category scores strictly higher than the one in #2.
C12_ContentScoreFormula ==
    ScoredCase =>
        /\ \A i \in 1..Len(contentRecs) :
              LET s == contentRecs[i].recommendationScore IN
              /\ IsNumber(s)
              /\ s.num * ScoreScale = s.den * ExpectedScoreScaled(contentRecs[i])
        /\ \A i, j \in 1..Len(contentRecs) :
              (/\ CategoryRank(contentRecs[i]) = 0
               /\ CategoryRank(contentRecs[j]) = 1
               /\ AllElseEqual(contentRecs[i], contentRecs[j]))
              => LET s == contentRecs[i].recommendationScore
                     t == contentRecs[j].recommendationScore
                 IN  s.num * t.den > t.num * s.den

\* candidates of the #1 and the #2 category that are equal in all else, a
\* candidate whose price bonus is cut to 0, and one whose sales are capped
C12_Witness ==
    /\ ScoredCase
    /\ \E i, j \in 1..Len(contentRecs) :
          /\ CategoryRank(contentRecs[i]) = 0
          /\ CategoryRank(contentRecs[j]) = 1
          /\ AllElseEqual(contentRecs[i], contentRecs[j])

\* a candidate far from the average price (bonus 0) with capped sales next
\* to one within reach of it
C12_WitnessPrice ==
    /\ ScoredCase
    /\ userPreferences.priceRange.avg.num > 0
    /\ \E i, j \in 1..Len(contentRecs) :
          LET avg == userPreferences.priceRange.avg
              p == products[contentRecs[i]._id]
              q == products[contentRecs[j]._id]
          IN  /\ Abs(p.price * avg.den - avg.num) > 2 * avg.num
              /\ p.sales > 200
              /\ Abs(q.price * avg.den - avg.num) < 2 * avg.num

-----------------------------------------------------------------------------
(* Properties of the seasonal scorer (SpecSeasonal).                       *)

\* the season buckets of the table: months, tags, categories
SeasonTable ==
    { [months |-> {3, 4, 5},
       tags |-> {"spring", "outdoor", "garden", "fashion"},
       categories |-> {"Home & Garden", "Sports & Outdoors",
                       "Clothing & Fashion"}],
      [months |-> {6, 7, 8},
       tags |-> {"summer", "outdoor", "sports", "vacation", "swimwear"},
       categories |-> {"Sports & Outdoors", "Clothing & Fashion",
                       "Electronics"}],
      [months |-> {9, 10, 11},
       tags |-> {"fall", "autumn", "back-to-school", "warm", "cozy"},
       categories |-> {"Clothing & Fashion", "Electronics",
                       "Books & Media"}],
      [months |-> {12, 1, 2},
       tags |-> {"winter", "holiday", "warm", "indoor", "gifts"},
       categories |-> {"Electronics", "Toys & Games", "Home & Garden"}] }

SeasonalResponded == pc = "done" /\ response.status = 200

\* exactly one bucket of the table holds the month; the tags and the
\* categories the scorer uses are that bucket's; every returned product is
\* active and has one of its tags or one of its categories
SeasonalBucketMatches ==
    SeasonalResponded =>
        /\ Cardinality({ b \in SeasonTable : month \in b.months }) = 1
        /\ \A b \in SeasonTable :
              month \in b.months =>
                 /\ SeasonalTags(month) = b.tags
                 /\ getSeasonalCategories(month) = b.categories
                 /\ \A i \in 1..Len(response.recommendations) :
                       LET p == products[response.recommendations[i]._id]
                       IN  /\ p.status = "active"
                           /\ \/ p.tags \cap b.tags # {}
                              \/ p.category \in b.categories

\* C13: for every month 1..12 the seasonal scorer selects exactly one of
\* the four buckets, tags and categories of the same season as in the
\* table; every returned product is active and has one of the bucket's
\* tags or categories; and the result has at most `limit` items.
C13_SeasonalBucketAndLimit ==
    /\ SeasonalBucketMatches
    /\ SeasonalResponded => Len(response.recommendations) <= limit

-----------------------------------------------------------------------------
(* Determinism of the scorers on an unchanged snapshot (SpecContent).      *)

\* the lists getContentBasedRecommendations can return on the snapshot of
\* the current state when its read succeeds
ContentOutputs ==
    { o.value : o \in { b \in ContentBody(userPreferences, limit) :
                          ~b.threw } }

\* C14: run twice on the same unchanged snapshot (orders, wishlist, cart,
\* catalog, limit), the extractor, the content scorer and the fusion
\* yield identical ordered output, items of equal weight or score
\* included.  The extractor and the fusion are functions of the snapshot;
\* the content scorer's output is one list when the reads succeed.
C14_SameOutputTwice ==
    pc = "content" => \A v, w \in ContentOutputs : v = w

-----------------------------------------------------------------------------
(* Properties of the orders and payments routes (SpecOrders).              *)

\* the refund record and the status of every order, in order
RefundRecords ==
    [i \in 1..Len(orders) |->
        [refund |-> orders[i].refund, status |-> orders[i].status]]

\* C15: the refund operation is admin-only: a request to
\* POST /api/payments/refund by an authenticated user whose role is not
\* admin creates no refund and leaves every order's refund record and
\* status unchanged.
C15_RefundAdminOnly ==
    [][(req'.handler = "refund" /\ req'.role # "admin")
          => (refunds' = refunds /\ RefundRecords' = RefundRecords)]_vars

\* C16: in every state reachable by order creations and cancellations,
\* every product's sales count is a non-negative integer.
C16_SalesNonNegative ==
    \A p \in ProductIds :
        products[p].sales \in Nat

-----------------------------------------------------------------------------
(* Unresolved product references in the requester's paid orders (Spec).    *)

UnresolvedLines == PaidLines({Requester}) \ ResolvedLines

\* getUserPreferences has returned: it never leaves priceRange.max
\* undefined
ExtractorRan == userPreferences.priceRange.max # Undefined

SeqRange(s) == { s[i] : i \in 1..Len(s) }

-----------------------------------------------------------------------------
(* Failures during the personalized request (Spec).                        *)

\* a scorer's catch has logged a failure of one of its reads
ScorerFailed == errorLog # {}

\* C18: a data-store read failure at any step of the request, the reads
\* inside the collaborative and the content scorer included, is answered
\* as a server fault and never as a success; a requester whose user
\* document does not exist is answered with a not-found error and does
\* not end in the server-fault path.
C18_FailuresSurfaced ==
    /\ [](pc = "done" /\ ScorerFailed => response.status = 500)
    /\ [][(pc = "prefs" /\ UserMissing) => pc' # "error"]_vars


(***************************************************************************)
(* The neighbour set of the collaborative scorer                           *)
(***************************************************************************)
\* the number of distinct products of ids that u has in paid orders
SharedProductCount(os, u, ids) ==
    Cardinality({ p \in ids :
        \E n \in 1..Len(os) :
            /\ os[n].user = u
            /\ os[n].isPaid
            /\ \E i \in 1..Len(os[n].orderItems) :
                  os[n].orderItems[i].product = p })

\* the users other than the requester that share a product with them
SharingUsers ==
    { u \in OrderUsers \ {Requester} :
        SharedProductCount(orders, u, RequesterProducts) > 0 }

C19_ExcludesRequesterAtMost20 ==
    pc # "collab" =>
        \A N \in SimilarUserSets(Requester, RequesterProducts) :
            /\ Requester \notin N
            /\ Cardinality(N) <= NeighborLimit
            /\ N \subseteq SharingUsers

\* more than 20 users share a product with the requester
C19_LimitBinds == pc # "collab" /\ Cardinality(SharingUsers) > NeighborLimit



(***************************************************************************)
(* The list getCollaborativeRecommendations returns                        *)
(***************************************************************************)
\* the scores of the returned items never increase along the list
ScoreDescending(list) ==
    \A i, j \in 1..Len(list) :
        i < j => list[i].recommendationScore.num
                     >= list[j].recommendationScore.num

\* the products the neighbours have in paid orders that name no product of
\* the requester
NeighborScoredProducts ==
    { ProductAt(l) : l \in { m \in PaidLines(Neighbors) :
        \A n \in PaidLines(Neighbors) :
            n[1] = m[1] => ProductAt(n) \notin RequesterProducts } }

C20_ActiveBounded ==
    (AfterCollaborative /\ limit >= 1) =>
        /\ \A i \in 1..Len(collaborativeRecs) :
              /\ collaborativeRecs[i]._id \in ProductIds
              /\ products[collaborativeRecs[i]._id].status = "active"
        /\ Len(collaborativeRecs) <= limit

\* an inactive product was scored and the scorer returned other products
C20_InactiveDropped ==
    /\ AfterCollaborative
    /\ limit >= 1
    /\ collaborativeRecs # <<>>
    /\ \E p \in NeighborScoredProducts : products[p].status # "active"



(***************************************************************************)
(* The list getContentBasedRecommendations returns on the scored path      *)
(***************************************************************************)
\* x is among the first three entries of list
InTop3(list, x) == RankInTop3(list, x) < 3

\* the returned products are active candidates in score-descending order
ContentListSound ==
    /\ \A i \in 1..Len(contentRecs) :
          LET p == products[contentRecs[i]._id] IN
          /\ p.status = "active"
          /\ \/ InTop3(userPreferences.categories, p.category)
             \/ InTop3(userPreferences.brands, p.brand)
    /\ \A i, j \in 1..Len(contentRecs) :
          i < j => LET s == contentRecs[i].recommendationScore
                       t == contentRecs[j].recommendationScore
                   IN  s.num * t.den >= t.num * s.den

\* C21: on the scored path every product the content scorer returns is
\* active and has a category among the snapshot's top 3 categories or a
\* brand among its top 3 brands, the list has at most N (= limit) items and
\* is ordered by total score descending, and no product matching neither a
\* preferred category nor a preferred brand stands above a product of the
\* #1 category.
C21_ContentListBounded ==
    ScoredCase =>
        /\ ContentListSound
        /\ Len(contentRecs) <= limit
        /\ \A i, j \in 1..Len(contentRecs) :
              (/\ i < j
               /\ CategoryRank(contentRecs[j]) = 0)
              => \/ CategoryRank(contentRecs[i]) < 3
                 \/ BrandRank(contentRecs[i]) < 3

\* the parts of C21 other than the cap
C21_ContentListMatches == ScoredCase => ContentListSound

\* the scored path returned two products of different score
C21_TwoScored ==
    /\ ScoredCase
    /\ Len(contentRecs) >= 2
    /\ contentRecs[1].recommendationScore # contentRecs[2].recommendationScore

(***************************************************************************)
(* The category and brand lists of the preference snapshot                 *)
(***************************************************************************)
\* the requester's signals in encounter order, as <<product, tenths>>:
\* resolved line items of the paid orders (10 per unit), resolved wishlist
\* products (5), resolved cart products (3)
EncounterSeq ==
    LET items == FlatItems(PaidOrdersOf(Requester))
        all == [i \in 1..Len(items) |->
                   <<items[i].product, 10 * items[i].quantity>>]
               \o [i \in 1..Len(wishlist) |-> <<wishlist[i], 5>>]
               \o [i \in 1..Len(cart) |-> <<cart[i].product, 3>>]
    IN  SelectSeq(all, LAMBDA g : products[g[1]].status # "deleted")

\* the category (field = "category") or brand (field = "brand") of the
\* n-th signal
KeyAt(field, n) ==
    IF field = "category" THEN products[EncounterSeq[n][1]].category
    ELSE products[EncounterSeq[n][1]].brand

\* ten times the weight the signals up to the n-th give to key
RECURSIVE TenthsUpTo(_, _, _)
TenthsUpTo(field, key, n) ==
    IF n = 0 THEN 0
    ELSE (IF KeyAt(field, n) = key THEN EncounterSeq[n][2] ELSE 0)
            + TenthsUpTo(field, key, n - 1)

Tenths(field, key) == TenthsUpTo(field, key, Len(EncounterSeq))

\* the position of the first signal of key
FirstEncounter(field, key) ==
    CHOOSE n \in 1..Len(EncounterSeq) :
        /\ KeyAt(field, n) = key
        /\ \A m \in 1..(n - 1) : KeyAt(field, m) # key

\* list holds exactly the keys with a weight, each once, by weight
\* descending and, among equal weights, by first encounter
RankedByWeight(field, list) ==
    /\ { list[i] : i \in 1..Len(list) }
          = { KeyAt(field, n) : n \in 1..Len(EncounterSeq) }
    /\ \A i, j \in 1..Len(list) : i < j =>
          /\ list[i] # list[j]
          /\ \/ Tenths(field, list[i]) > Tenths(field, list[j])
             \/ /\ Tenths(field, list[i]) = Tenths(field, list[j])
                /\ FirstEncounter(field, list[i])
                      < FirstEncounter(field, list[j])

\* C22: in the preference snapshot the weight of a category (and of a
\* brand) is the sum of quantities of its paid line items plus 0.5 per
\* wishlist product plus 0.3 per cart product, and the category and brand
\* lists hold exactly the keys with weight > 0, by weight descending with
\* ties in first-encounter order (orders, then wishlist, then cart).
C22_ListsRankedByWeight ==
    AfterPreferences =>
        /\ RankedByWeight("category", userPreferences.categories)
        /\ RankedByWeight("brand", userPreferences.brands)

\* the category list alone
C22_CategoriesRanked ==
    AfterPreferences =>
        RankedByWeight("category", userPreferences.categories)

\* the brand list when no brand name is a number
C22_NamedBrandsRanked ==
    (AfterPreferences /\ products \notin NumericBrandCatalogs) =>
        RankedByWeight("brand", userPreferences.brands)

\* two keys tie on weight, and a purchase is outweighed by later signals
C22_TieAndOvertake ==
    /\ AfterPreferences
    /\ \E i, j \in 1..Len(userPreferences.categories) :
          /\ i < j
          /\ Tenths("category", userPreferences.categories[i])
                = Tenths("category", userPreferences.categories[j])
    /\ \E i, j \in 1..Len(userPreferences.brands) :
          /\ i < j
          /\ FirstEncounter("brand", userPreferences.brands[i])
                > FirstEncounter("brand", userPreferences.brands[j])

OnHandAndHeld(p) ==
    products[p].stock
        + QuantityHeld(SelectSeq(orders, LAMBDA o : o.status # "cancelled"), p)

\* C24: cancellation restores inventory at most once per order: over every
\* create-order and cancel-order request, stock plus the quantity held in
\* non-cancelled orders stays constant for every product, so cancelling an
\* order that is already cancelled leaves stock and sales unchanged.
C24_CancelRestoresOnce ==
    [][(req'.handler \in {"create", "cancel"} /\ served' # served) =>
           /\ \A p \in ProductIds : OnHandAndHeld(p)' = OnHandAndHeld(p)
           /\ (/\ req'.handler = "cancel"
               /\ \E k \in 1..Len(orders) :
                     /\ orders[k].status = "cancelled"
                     /\ orders'[k] = orders[k]
                     /\ orders[k].user = req'.user
               /\ response'.status = 200)
              => products' = products]_vars

(***************************************************************************)
(* Order status under the order, payment and webhook requests              *)
(***************************************************************************)
\* C25: in every reachable state each order's status is one of pending,
\* confirmed, processing, shipped, delivered, cancelled, refunded.
C25_StatusInEnum ==
    \A k \in 1..Len(orders) :
        orders[k].status \in {"pending", "confirmed", "processing",
                              "shipped", "delivered", "cancelled",
                              "refunded"}

\* the admin's status update keeps to the enum: a value outside it is
\* answered with an error and leaves the order as it was
C25_AdminUpdateValidated ==
    [][(req'.handler = "status" /\ served' # served) =>
           \A k \in 1..Len(orders) :
               orders'[k].status # orders[k].status =>
                   orders'[k].status \in OrderStatuses]_vars

\* C26: every change of an existing order's status appends an entry with
\* the new status to its statusHistory: over every request, an order whose
\* status changed has the new status as the last entry of its history.
C26_StatusChangeRecorded ==
    [][\A k \in 1..Len(orders) :
          (k <= Len(orders') /\ orders'[k].status # orders[k].status) =>
              /\ orders'[k].statusHistory # <<>>
              /\ orders'[k].statusHistory[Len(orders'[k].statusHistory)]
                    = orders'[k].status]_vars

\* the same for the requests that write through order.save()
C26_SavedChangeRecorded ==
    [][(req'.handler # "webhook") =>
        \A k \in 1..Len(orders) :
          (k <= Len(orders') /\ orders'[k].status # orders[k].status) =>
              /\ orders'[k].statusHistory # <<>>
              /\ orders'[k].statusHistory[Len(orders'[k].statusHistory)]
                    = orders'[k].status]_vars

\* C27: confirm-payment marks an order paid only when the requester owns
\* the order and the succeeded intent is the one recorded for that order.
C27_ConfirmOwnOrderOwnIntent ==
    [][(req'.handler = "confirm-payment" /\ served' # served) =>
        \A k \in 1..Len(orders) :
            orders'[k] # orders[k] =>
                /\ orders[k].user = req'.user
                /\ orders[k].stripePaymentIntentId = req'.paymentIntentId]_vars

\* confirm-payment never marks an order paid on an intent that has not
\* succeeded
C27_ConfirmNeedsSucceeded ==
    [][(req'.handler = "confirm-payment" /\ served' # served) =>
        \A k \in 1..Len(orders) :
            orders'[k] # orders[k] =>
                \E i \in 1..Len(intents) :
                    /\ intents[i].id = req'.paymentIntentId
                    /\ intents[i].status = "succeeded"]_vars

ActiveStatuses == {"confirmed", "processing", "shipped", "delivered"}

\* C28: a pay, confirm-payment or cancel request never gives a cancelled
\* order an active status or marks it paid, and a cancel request on a
\* shipped or delivered order is rejected with the order, stock and sales
\* left unchanged.
C28_CancelledStaysCancelled ==
    [][(req'.handler \in {"pay", "confirm-payment", "cancel"}
            /\ served' # served) =>
        /\ \A k \in 1..Len(orders) :
              orders[k].status = "cancelled" =>
                  /\ orders'[k].status \notin ActiveStatuses
                  /\ orders'[k].isPaid = orders[k].isPaid
        /\ req'.handler = "cancel" =>
              /\ \A k \in 1..Len(orders) :
                    orders[k].status \in {"shipped", "delivered"} =>
                        orders'[k] = orders[k]
              /\ response'.status = 400 =>
                    (orders' = orders /\ products' = products)]_vars

\* the second half of C28 alone
C28_ShippedCancelRejected ==
    [][(req'.handler = "cancel" /\ served' # served) =>
          /\ \A k \in 1..Len(orders) :
                orders[k].status \in {"shipped", "delivered"} =>
                    orders'[k] = orders[k]
          /\ response'.status = 400 =>
                (orders' = orders /\ products' = products)]_vars

\* a cancel request on a shipped order has been rejected
C28_ShippedCancelTried ==
    /\ req.handler = "cancel"
    /\ response.status = 400
    /\ \E k \in 1..Len(orders) :
          orders[k].status = "shipped" /\ orders[k].user = req.user

(***************************************************************************)
(* The cart                                                                *)
(***************************************************************************)
\* one entry per product at most, every quantity at least 1
CartWellFormed(ct) ==
    /\ \A i, j \in 1..Len(ct) : ct[i].product = ct[j].product => i = j
    /\ \A i \in 1..Len(ct) : ct[i].quantity >= 1

\* C29: after any sequence of completed add, update, remove and clear
\* requests the cart holds at most one entry per product, each of quantity
\* >= 1; an add or update succeeds only with a resulting quantity within
\* the product's stock, and a rejected request leaves the cart unchanged.
C29_CartWellFormed ==
    /\ CartWellFormed(cart)
    /\ (req.handler \in {"cart-add", "cart-update"} /\ response.status = 200)
          => \E i \in 1..Len(cart) :
                /\ ObjectIdToString(cart[i].product)
                      = [req.productId EXCEPT !.upper = FALSE]
                /\ cart[i].quantity <= products[cart[i].product].stock

\* every entry has a quantity of at least 1 that the stock covers
C29_QuantitiesWithinStock ==
    \A i \in 1..Len(cart) :
        /\ cart[i].quantity >= 1
        /\ cart[i].quantity <= products[cart[i].product].stock

\* a rejected request leaves the cart unchanged
C29_RejectedLeavesCart ==
    [][(served' # served /\ response'.status # 200) => cart' = cart]_vars

\* the cart is as the claim has it as long as every id is sent in the
\* lower-case form
C29_LowerCaseIdsWellFormed ==
    [][(served' # served /\ ~req'.productId.upper /\ CartWellFormed(cart))
          => CartWellFormed(cart')]_vars

(***************************************************************************)
(* The default address                                                     *)
(***************************************************************************)
Defaults == { i \in 1..Len(addresses) : addresses[i].isDefault }

\* C30: after any sequence of add-address, update-address and
\* delete-address requests, a non-empty address list has exactly one
\* address with isDefault = true.
C30_ExactlyOneDefault ==
    addresses # <<>> => Cardinality(Defaults) = 1

\* never two defaults
C30_AtMostOneDefault == Cardinality(Defaults) <= 1

\* adding and deleting alone keep exactly one default
C30_AddDeleteKeepDefault ==
    [][(req'.handler \in {"address-add", "address-delete"}
            /\ served' # served
            /\ (addresses # <<>> => Cardinality(Defaults) = 1))
          => (addresses' # <<>> => Cardinality(Defaults') = 1)]_vars
=============================================================================
